---- MODULE Spec2Model ----
(***************************************************************************)
(* A model of the SMS notification system: the sliding-window rate limiter *)
(* (src/src/rateLimiter.js, class RateLimiter), the Redis client wrapper   *)
(* (src/src/redis.js), the SMS service (src/unnamed/part_001), the BullMQ  *)
(* queue processor (src/src/rateLimiter.js, class QueueProcessor) and the  *)
(* HTTP handlers that feed it (src/src/index.js, class APIRouter).         *)
(*                                                                         *)
(* Times are milliseconds, as Date.now() gives them.  Redis is modelled by *)
(* the commands the code issues: a sorted set and a block key per          *)
(* identifier, each with an expiry time, and TTL answering in whole        *)
(* seconds.  BullMQ is modelled by the job life cycle the options of       *)
(* addSMSJob and of the Worker ask for.                                    *)
(***************************************************************************)
EXTENDS Integers, Sequences, FiniteSets, Bags, TLC

(***************************************************************************)
(* Configuration (src/src/config.js).  The rate-limit values come from the *)
(* environment; the model runs a small configuration of them.              *)
(***************************************************************************)
windowMs == 1000
maxRequests == 2
blockDurationMs == 2000

\* How far the clock moves in one step of the limiter specifications, and
\* where the clock stops.
Step == 250
MaxTime == 3000
LimiterMaxTime == 500
StatusMaxTime == 1500

\* Where the clock of the queue specification stops.
QueueMaxTime == 6000

\* The length of a day, 86400000 ms, scaled to the clock of the model: the
\* second retry of a job falls on the day after its first attempt.
DayMs == 4000

\* The day of the clock value clk, new Date().toISOString().split('T')[0],
\* and the days the clock of the queue specification reaches.
Day(clk) == clk \div DayMs
Days == 0..(QueueMaxTime \div DayMs)

\* The worker's slots: `concurrency: 5` in QueueProcessor.initialize
\* (rateLimiter.js:168); the model runs fewer.
concurrency == 2

\* The jobs the queue specification lets the handlers enqueue, and the
\* longest bulk request.
MaxJobs == 1
MaxBulk == 2

\* The jobs the handlers enqueue in the specification of the handlers alone.
MaxSubmitted == 3

\* The jobs of the specification of the worker under load.
PoolJobs == 3

\* The jobs of the specification of what reaches the gateway.
SendJobs == 2

\* The entries the calls of logSMSDelivery push in the specification of the
\* recorder's commands, and how far its clock runs.
MaxRecords == 4
LogMaxTime == 500
OrderJobs == 2

\* LTRIM 0 999 keeps 1000 entries of each list; the model keeps fewer.
DeliveryLogCap == 2
JobMetricsCap == 2

\* Concurrent callers of isAllowed in SpecLimiter.
NCallers == 3

\* The identifiers with rate-limit keys: two callers' own, and the defaults
\* of the HTTP handlers ("api", "bulk-api") and of sendSMS ("default").
Identifiers == {"u1", "u2", "api", "bulk-api", "default"}
CallerIds == {"u1", "u2"}

VARIABLES
    now,          \* the clock: Date.now() and the Redis server's time
    initialized,  \* RedisClient.initialized
    redis,        \* the rate-limit keys: [zset, zexp, blk]
    admitted,     \* history: per identifier, the times of the admitted calls of the trailing window
    last,         \* history: the latest sequential call, with what held when it was made
    callers,      \* the in-flight isAllowed calls of SpecLimiter
    running,      \* NotificationSystem.initialized: queue, worker and routes exist
    jobs,         \* the jobs of the BullMQ queue, by job id
    wait,         \* the ids of the waiting jobs, next to run first
    execs,        \* the executions of processSMSJob in flight, one per busy worker slot
    resp,         \* the latest HTTP response of the submit handlers
    deliveryLog,  \* the Redis list sms_delivery_logs, newest first
    dailyLog,     \* the Redis lists sms_logs:<date>, by day, each as the bag of its entries' statuses
    jobMetrics,   \* the Redis list job_metrics, newest first
    recording     \* the calls of logSMSDelivery in flight, command by command, one per worker slot

limiterVars == <<admitted, last, callers>>
queueVars == <<running, jobs, wait, execs, resp>>
recorderVars == <<deliveryLog, dailyLog, jobMetrics, recording>>
vars == <<now, initialized, redis, limiterVars, queueVars, recorderVars>>

(***************************************************************************)
(* Redis.  redis.zset[id] is the sorted set rate_limit:sms:<id> as a bag   *)
(* of scores (every member is unique, `${now}-${Math.random()}`);          *)
(* redis.zexp[id] is the time that key expires at (0: no expiry set);      *)
(* redis.blk[id] is the time the key rate_limit:block:<id> expires at      *)
(* (0: no such key).                                                       *)
(***************************************************************************)
Ceil(a, b) == (a + b - 1) \div b

EmptyRedis ==
    [zset |-> [i \in Identifiers |-> EmptyBag],
     zexp |-> [i \in Identifiers |-> 0],
     blk  |-> [i \in Identifiers |-> 0]]

\* TTL key: -2 when the key does not exist, else the remaining time in
\* seconds, rounded to the nearest second as Redis does ((ms + 500) / 1000).
TTL(expireAt, clk) ==
    IF expireAt = 0 \/ expireAt <= clk THEN 0 - 2
    ELSE (expireAt - clk + 500) \div 1000

\* Keys whose expiry time has come are gone.
Expired(s, clk) ==
    [zset |-> [i \in Identifiers |->
                 IF s.zexp[i] # 0 /\ s.zexp[i] <= clk THEN EmptyBag ELSE s.zset[i]],
     zexp |-> [i \in Identifiers |->
                 IF s.zexp[i] # 0 /\ s.zexp[i] <= clk THEN 0 ELSE s.zexp[i]],
     blk  |-> [i \in Identifiers |->
                 IF s.blk[i] # 0 /\ s.blk[i] <= clk THEN 0 ELSE s.blk[i]]]

\* ZREMRANGEBYSCORE key lo hi; a key emptied is deleted, its expiry with it.
ZRemRangeByScore(s, id, lo, hi) ==
    LET b    == s.zset[id]
        keep == {x \in DOMAIN b : ~(lo <= x /\ x <= hi)}
        b2   == [x \in keep |-> b[x]]
    IN  [s EXCEPT !.zset[id] = b2,
                  !.zexp[id] = IF keep = {} THEN 0 ELSE @]

ZCard(s, id) == BagCardinality(s.zset[id])

\* ZADD key score member, the member new.
ZAdd(s, id, score) == [s EXCEPT !.zset[id] = @ (+) SetToBag({score})]

\* EXPIRE key seconds: no effect on a key that does not exist.
Expire(s, id, seconds, clk) ==
    IF s.zset[id] = EmptyBag THEN s
    ELSE [s EXCEPT !.zexp[id] = clk + seconds * 1000]

\* SETEX key seconds value.
SetEx(s, id, seconds, clk) == [s EXCEPT !.blk[id] = clk + seconds * 1000]

\* DEL key blockKey.
Del(s, id) == [s EXCEPT !.zset[id] = EmptyBag, !.zexp[id] = 0, !.blk[id] = 0]

\* ZRANGE key 0 0 WITHSCORES: the lowest score, as a sequence of 0 or 1.
ZRangeFirst(s, id) ==
    LET d == DOMAIN s.zset[id]
    IN  IF d = {} THEN <<>>
        ELSE <<CHOOSE x \in d : \A y \in d : x <= y>>

(***************************************************************************)
(* RateLimiter.isAllowed (src/src/rateLimiter.js:11-80), one operator per  *)
(* awaited Redis command.  A call is a context c: its position pc, the     *)
(* identifier, the `now` it captured, the count it read, and what it       *)
(* returned (ret, a sequence of 0 or 1 results) or that it threw.  Each    *)
(* operator takes the context, the Redis state and the server's clock and  *)
(* gives the pair [c, s] after the command.                                *)
(***************************************************************************)
undefined == "undefined"

NoCall ==
    [pc |-> "idle", id |-> "u1", now |-> 0, currentRequests |-> 0,
     ret |-> <<>>, threw |-> FALSE, fault |-> "none"]

\* Lines 12-17: getClient() stands before the try block, so its error leaves
\* isAllowed as a rejected promise; otherwise `now` is read and the try begins.
isAllowed_enter(id, clk, init) ==
    IF init
    THEN [NoCall EXCEPT !.pc = "ttl", !.id = id, !.now = clk]
    ELSE [NoCall EXCEPT !.pc = "done", !.id = id, !.now = clk,
                        !.threw = TRUE, !.fault = "notConnected"]

Return(c, result) == [c EXCEPT !.pc = "done", !.ret = <<result>>]

\* Lines 21-30.
isAllowed_ttl(c, s, clk) ==
    LET blockExpiry == TTL(s.blk[c.id], clk)
    IN  IF blockExpiry > 0
        THEN [c |-> Return(c, [allowed |-> FALSE, remaining |-> 0,
                               resetTime |-> c.now + blockExpiry * 1000,
                               blocked |-> TRUE,
                               blockDuration |-> blockExpiry * 1000]),
              s |-> s]
        ELSE [c |-> [c EXCEPT !.pc = "zremrangebyscore"], s |-> s]

\* A prune that reaches back two windows instead of one.
isAllowed_zremrangebyscore_twoWindows(c, s, clk) ==
    [c |-> [c EXCEPT !.pc = "zcard"],
     s |-> ZRemRangeByScore(s, c.id, 0, c.now - 2 * windowMs)]

\* Line 33, windowStart = now - windowMs (line 14).
isAllowed_zremrangebyscore(c, s, clk) ==
    [c |-> [c EXCEPT !.pc = "zcard"],
     s |-> ZRemRangeByScore(s, c.id, 0, c.now - windowMs)]

\* Lines 36-38.
isAllowed_zcard(c, s, clk) ==
    LET n == ZCard(s, c.id)
    IN  [c |-> [c EXCEPT !.currentRequests = n,
                         !.pc = IF n >= maxRequests THEN "setex" ELSE "zadd"],
         s |-> s]

\* Line 40.
isAllowed_setex(c, s, clk) ==
    [c |-> [c EXCEPT !.pc = "zrange"],
     s |-> SetEx(s, c.id, Ceil(blockDurationMs, 1000), clk)]

\* Lines 43-52.
isAllowed_zrange(c, s, clk) ==
    LET oldestRequest == ZRangeFirst(s, c.id)
        resetTime == IF Len(oldestRequest) > 0
                     THEN oldestRequest[1] + windowMs
                     ELSE c.now + windowMs
    IN  [c |-> Return(c, [allowed |-> FALSE, remaining |-> 0,
                          resetTime |-> resetTime, blocked |-> TRUE,
                          blockDuration |-> blockDurationMs]),
         s |-> s]

\* Line 56.
isAllowed_zadd(c, s, clk) ==
    [c |-> [c EXCEPT !.pc = "expire"], s |-> ZAdd(s, c.id, c.now)]

\* isAllowed that leaves the admitted call out of `remaining`.
isAllowed_expire_notCounted(c, s, clk) ==
    [c |-> Return(c, [allowed |-> TRUE,
                      remaining |-> maxRequests - c.currentRequests,
                      resetTime |-> c.now + windowMs, blocked |-> FALSE,
                      blockDuration |-> undefined]),
     s |-> Expire(s, c.id, Ceil(windowMs, 1000), clk)]

\* Lines 59-68.
isAllowed_expire(c, s, clk) ==
    [c |-> Return(c, [allowed |-> TRUE,
                      remaining |-> maxRequests - (c.currentRequests + 1),
                      resetTime |-> c.now + windowMs, blocked |-> FALSE,
                      blockDuration |-> undefined]),
     s |-> Expire(s, c.id, Ceil(windowMs, 1000), clk)]

\* Lines 70-79: any command that rejects lands in the catch block.
isAllowed_catch(c) ==
    [Return(c, [allowed |-> TRUE, remaining |-> maxRequests - 1,
                resetTime |-> c.now + windowMs, blocked |-> FALSE,
                blockDuration |-> undefined])
     EXCEPT !.fault = "commandFailed"]

RedisSteps ==
    {"ttl", "zremrangebyscore", "zcard", "setex", "zrange", "zadd", "expire"}

isAllowed_step(c, s, clk) ==
    CASE c.pc = "ttl"              -> isAllowed_ttl(c, s, clk)
      [] c.pc = "zremrangebyscore" -> isAllowed_zremrangebyscore(c, s, clk)
      [] c.pc = "zcard"            -> isAllowed_zcard(c, s, clk)
      [] c.pc = "setex"            -> isAllowed_setex(c, s, clk)
      [] c.pc = "zrange"           -> isAllowed_zrange(c, s, clk)
      [] c.pc = "zadd"             -> isAllowed_zadd(c, s, clk)
      [] c.pc = "expire"           -> isAllowed_expire(c, s, clk)
      [] OTHER                     -> [c |-> c, s |-> s]

\* A whole call with no other call and no clock step in between; the command
\* at position failAt rejects ("none": no command does).
RECURSIVE isAllowed_run(_, _, _, _)
isAllowed_run(c, s, clk, failAt) ==
    IF c.pc \notin RedisSteps THEN [c |-> c, s |-> s]
    ELSE IF c.pc = failAt THEN [c |-> isAllowed_catch(c), s |-> s]
    ELSE LET n == isAllowed_step(c, s, clk)
         IN  isAllowed_run(n.c, n.s, clk, failAt)

isAllowed(id, s, clk, init, failAt) ==
    isAllowed_run(isAllowed_enter(id, clk, init), s, clk, failAt)

(***************************************************************************)
(* The clock and the Redis client (src/src/redis.js).                      *)
(***************************************************************************)
\* The admitted calls of identifier id made after time t.
Since(adm, t) == [x \in {y \in DOMAIN adm : y > t} |-> adm[x]]

Tick(d, until) ==
    /\ now + d <= until
    /\ now' = now + d
    /\ redis' = Expired(redis, now')
    /\ admitted' = [i \in Identifiers |-> Since(admitted[i], now' - windowMs)]
    /\ UNCHANGED <<initialized, last, callers, queueVars, recorderVars>>

\* RedisClient.connect, lines 10-35 of redis.js.
connect ==
    /\ ~initialized
    /\ initialized' = TRUE
    /\ UNCHANGED <<now, redis, limiterVars, queueVars, recorderVars>>

\* RedisClient.disconnect, lines 37-43 of redis.js.
disconnect ==
    /\ initialized
    /\ initialized' = FALSE
    /\ UNCHANGED <<now, redis, limiterVars, queueVars, recorderVars>>

(***************************************************************************)
(* Sequential use of the limiter: each call runs to its end before the     *)
(* next begins and before the clock moves.                                 *)
(***************************************************************************)
NoResponse == [op |-> "none", status |-> 0, results |-> <<>>, enqueued |-> {}]

\* A worker slot with no call of logSMSDelivery in flight.
NoRecording == [pc |-> "idle", logEntry |-> <<>>]

NoLast == [op |-> "none", id |-> "u1", at |-> 0, c |-> NoCall,
           pre |-> EmptyRedis, recent |-> 0]

Returned(c) == c.pc = "done" /\ ~c.threw
Result(c) == c.ret[1]

SeqIsAllowed(id) ==
    LET r == isAllowed(id, redis, now, initialized, "none")
    IN  /\ redis' = r.s
        /\ last' = [op |-> "isAllowed", id |-> id, at |-> now, c |-> r.c,
                    pre |-> redis,
                    recent |-> BagCardinality(Since(admitted[id], now - windowMs))]
        /\ admitted' = IF Returned(r.c) /\ Result(r.c).allowed
                       THEN [admitted EXCEPT ![id] = @ (+) SetToBag({now})]
                       ELSE admitted
        /\ UNCHANGED <<now, initialized, callers, queueVars, recorderVars>>

Init ==
    /\ now = 0
    /\ initialized = FALSE
    /\ redis = EmptyRedis
    /\ admitted = [i \in Identifiers |-> EmptyBag]
    /\ last = NoLast
    /\ callers = [p \in 1..NCallers |-> NoCall]
    /\ running = FALSE
    /\ jobs = <<>>
    /\ wait = <<>>
    /\ execs = {}
    /\ resp = NoResponse
    /\ deliveryLog = <<>>
    /\ dailyLog = [d \in Days |-> EmptyBag]
    /\ jobMetrics = [list |-> <<>>, completed |-> 0, failed |-> 0]
    /\ recording = [w \in 1..concurrency |-> NoRecording]

NextSeq ==
    \/ connect
    \/ Tick(Step, MaxTime)
    \/ \E id \in CallerIds : SeqIsAllowed(id)

SpecSeq == Init /\ [][NextSeq]_vars

(***************************************************************************)
(* C1.                                                                     *)
(***************************************************************************)
\* The block of identifier id in Redis state s was set by SETEX at BlockSetAt
\* and is meant to last blockDurationMs from then.
BlockSetAt(s, id) == s.blk[id] - Ceil(blockDurationMs, 1000) * 1000
BlockInEffect(s, id, t) ==
    s.blk[id] # 0 /\ t < BlockSetAt(s, id) + blockDurationMs

Rejected(c) == Returned(c) /\ ~Result(c).allowed /\ Result(c).blocked
Admitted(c) == Returned(c) /\ Result(c).allowed

\* C1, first part: a call that follows maxRequests admitted calls of the
\* same trailing window is rejected with blocked = true.
C1_RejectedWhenWindowFull ==
    (last.op = "isAllowed" /\ Returned(last.c) /\ last.recent >= maxRequests)
        => Rejected(last.c)

\* C1, second part: every call made while blockDurationMs has not yet passed
\* since the block was set is rejected with blocked = true.
C1_RejectedWhileBlockLasts ==
    (last.op = "isAllowed" /\ Returned(last.c)
        /\ BlockInEffect(last.pre, last.id, last.at))
        => Rejected(last.c)

\* C1, third part: a call made when no block is in effect and no admitted
\* call is left in the trailing window is admitted.
C1_AdmittedAfterBlockAndWindow ==
    (last.op = "isAllowed" /\ Returned(last.c)
        /\ ~BlockInEffect(last.pre, last.id, last.at) /\ last.recent = 0)
        => Admitted(last.c)

\* C1: for any identifier, after maxRequests admitted calls within one
\* window the next call is rejected with blocked = true, every call during
\* the following blockDuration is rejected with blocked = true, and a call
\* made after the block has expired and the window has cleared is admitted.
C1_BlockedForBlockDuration ==
    /\ C1_RejectedWhenWindowFull
    /\ C1_RejectedWhileBlockLasts
    /\ C1_AdmittedAfterBlockAndWindow

(***************************************************************************)
(* Concurrent use of the limiter: every await of isAllowed is a point      *)
(* where another call, or the clock, may take a step.  The callers are the *)
(* jobs the worker runs side by side (sendSMS, part_001 line 18) and any   *)
(* other user of the exported rateLimiter.                                 *)
(***************************************************************************)
Callers == 1..NCallers

\* The call of caller p is at command `at`; n is the pair after the command.
At(p, at) == callers[p].pc = at
Becomes(p, n) ==
    /\ callers' = [callers EXCEPT ![p] = n.c]
    /\ redis' = n.s
    /\ UNCHANGED <<now, initialized, admitted, last, queueVars, recorderVars>>

CallIsAllowed(p, id) ==
    /\ At(p, "idle")
    /\ callers' = [callers EXCEPT ![p] = isAllowed_enter(id, now, initialized)]
    /\ UNCHANGED <<now, initialized, redis, admitted, last, queueVars, recorderVars>>

CmdTtl(p) ==
    /\ At(p, "ttl")
    /\ Becomes(p, isAllowed_ttl(callers[p], redis, now))

CmdZremrangebyscore(p) ==
    /\ At(p, "zremrangebyscore")
    /\ Becomes(p, isAllowed_zremrangebyscore(callers[p], redis, now))

CmdZcard(p) ==
    /\ At(p, "zcard")
    /\ Becomes(p, isAllowed_zcard(callers[p], redis, now))

CmdSetex(p) ==
    /\ At(p, "setex")
    /\ Becomes(p, isAllowed_setex(callers[p], redis, now))

CmdZrange(p) ==
    /\ At(p, "zrange")
    /\ Becomes(p, isAllowed_zrange(callers[p], redis, now))

CmdZadd(p) ==
    /\ At(p, "zadd")
    /\ Becomes(p, isAllowed_zadd(callers[p], redis, now))

CmdExpire(p) ==
    /\ At(p, "expire")
    /\ Becomes(p, isAllowed_expire(callers[p], redis, now))

\* The awaited command rejects (connection lost, maxRetriesPerRequest used up).
CmdFails(p) ==
    /\ callers[p].pc \in RedisSteps
    /\ callers' = [callers EXCEPT ![p] = isAllowed_catch(callers[p])]
    /\ UNCHANGED <<now, initialized, redis, admitted, last, queueVars, recorderVars>>

NextLimiter ==
    \/ connect
    \/ disconnect
    \/ Tick(Step, LimiterMaxTime)
    \/ \E p \in Callers, id \in CallerIds : CallIsAllowed(p, id)
    \/ \E p \in Callers : CmdTtl(p)
    \/ \E p \in Callers : CmdZremrangebyscore(p)
    \/ \E p \in Callers : CmdZcard(p)
    \/ \E p \in Callers : CmdSetex(p)
    \/ \E p \in Callers : CmdZrange(p)
    \/ \E p \in Callers : CmdZadd(p)
    \/ \E p \in Callers : CmdExpire(p)
    \/ \E p \in Callers : CmdFails(p)

SpecLimiter == Init /\ [][NextLimiter]_vars

(***************************************************************************)
(* C2.                                                                     *)
(***************************************************************************)
\* The calls that returned allowed = true with no command failing and whose
\* event lies in the window that ends now.
AdmittedInWindow ==
    {p \in Callers : /\ Admitted(callers[p])
                     /\ callers[p].fault = "none"
                     /\ callers[p].now > now - windowMs
                     /\ BagIn(callers[p].now, redis.zset[callers[p].id])}

\* C2: under any interleaving of the commands of concurrent calls for one
\* identifier, with no store failure, the calls that return allowed = true
\* and whose events lie inside one trailing window number at most
\* maxRequests.
C2_NoRaceOnWindow ==
    \A id \in Identifiers :
        Cardinality({p \in AdmittedInWindow : callers[p].id = id}) <= maxRequests

(***************************************************************************)
(* C10.                                                                    *)
(***************************************************************************)
FailedOpen(c) ==
    /\ ~c.threw
    /\ Len(c.ret) = 1
    /\ Result(c).allowed
    /\ ~Result(c).blocked
    /\ Result(c).remaining \in Nat

\* C10: whichever way the store is unavailable during isAllowed (the client
\* not connected, or one command failing at any step), the call returns
\* allowed = true, blocked = false and a remaining value, and raises no
\* error.
C10_FailsOpen ==
    \A p \in Callers :
        (callers[p].pc = "done" /\ callers[p].fault # "none")
            => FailedOpen(callers[p])

\* The part of C10 that the catch block of isAllowed does provide: a command
\* that fails makes the call fail open.
C10_CommandFailureFailsOpen ==
    \A p \in Callers :
        (callers[p].pc = "done" /\ callers[p].fault = "commandFailed")
            => FailedOpen(callers[p])

(***************************************************************************)
(* Strings are sequences of characters, so that the phone-number pattern   *)
(* and trim() are computed.  The empty sequence is the empty string and    *)
(* also stands for a field the caller left out: both are falsy.            *)
(***************************************************************************)
Digits == {"0", "1", "2", "3", "4", "5", "6", "7", "8", "9"}
Whitespace == {" "}

\* The pattern without its anchors, /\+[1-9]\d{1,14}/: a match anywhere in
\* the string.
isValidPhoneNumber_unanchored(phoneNumber) ==
    \E i \in 1..Len(phoneNumber) :
        /\ i + 2 <= Len(phoneNumber)
        /\ phoneNumber[i] = "+"
        /\ phoneNumber[i + 1] \in Digits \ {"0"}
        /\ phoneNumber[i + 2] \in Digits

\* SMSService.isValidPhoneNumber: /^\+[1-9]\d{1,14}$/.
isValidPhoneNumber(phoneNumber) ==
    /\ Len(phoneNumber) >= 3
    /\ Len(phoneNumber) <= 16
    /\ phoneNumber[1] = "+"
    /\ phoneNumber[2] \in Digits \ {"0"}
    /\ \A i \in 3..Len(phoneNumber) : phoneNumber[i] \in Digits

RECURSIVE trimStart(_)
trimStart(m) ==
    IF m # <<>> /\ Head(m) \in Whitespace THEN trimStart(Tail(m)) ELSE m

RECURSIVE trimEnd(_)
trimEnd(m) ==
    IF m # <<>> /\ m[Len(m)] \in Whitespace
    THEN trimEnd(SubSeq(m, 1, Len(m) - 1)) ELSE m

\* String.prototype.trim.
trim(m) == trimEnd(trimStart(m))

\* message.substring(0, 100) + (message.length > 100 ? '...' : ''), line 98.
preview(m) ==
    IF Len(m) > 100 THEN SubSeq(m, 1, 100) \o <<".", ".", ".">> ELSE m

(***************************************************************************)
(* The Outcome Recorder: SMSService.logSMSDelivery (part_001:91-117) and   *)
(* QueueProcessor.updateJobMetrics (rateLimiter.js:367-393).               *)
(***************************************************************************)
NoError == <<>>

\* LPUSH then LTRIM 0 cap-1.
PushTrim(list, entry, cap) ==
    LET l == <<entry>> \o list
    IN  IF Len(l) > cap THEN SubSeq(l, 1, cap) ELSE l

LogEntry(to, message, status, apiResponse, error, clk) ==
    [timestamp |-> clk, to |-> to, message |-> preview(message),
     status |-> status, apiResponse |-> apiResponse, error |-> error]

\* The lists after logSMSDelivery, as [deliveryLog, dailyLog].  The list of a
\* day is read by getDailyStats alone (part_001:131-159), which counts its
\* entries by status: the model keeps the status of each entry.
\* What the commands of logSMSDelivery leave when the command failAt rejects
\* ("none": all go through): what the earlier commands wrote stays.
logSMSDelivery_commands(log, daily, to, message, status, apiResponse, error, clk, failAt) ==
    LET logEntry == LogEntry(to, message, status, apiResponse, error, clk)
    IN  IF failAt = "lpush" THEN [deliveryLog |-> log, dailyLog |-> daily]
        ELSE IF failAt = "lpushDaily"
        THEN [deliveryLog |-> PushTrim(log, logEntry, DeliveryLogCap),
              dailyLog |-> daily]
        ELSE [deliveryLog |-> PushTrim(log, logEntry, DeliveryLogCap),
              dailyLog |-> [daily EXCEPT ![Day(clk)] = @ (+) SetToBag({logEntry.status})]]

\* logSMSDelivery without its try block: a rejected command is thrown on.
logSMSDelivery_noCatch(log, daily, to, message, status, apiResponse, error, clk, failAt) ==
    [lists |-> logSMSDelivery_commands(log, daily, to, message, status,
                                       apiResponse, error, clk, failAt),
     thrown |-> IF failAt = "none" THEN NoError ELSE <<"Connection is closed.">>]

\* logSMSDelivery (lines 94-116): the catch block swallows the error of a
\* rejected command; thrown is the error that leaves the function.
logSMSDelivery(log, daily, to, message, status, apiResponse, error, clk, failAt) ==
    [lists |-> logSMSDelivery_commands(log, daily, to, message, status,
                                       apiResponse, error, clk, failAt),
     thrown |-> NoError]

\* job_metrics and the per-day counters after updateJobMetrics.
\* failAt as in logSMSDelivery (catch block: lines 390-392).
updateJobMetrics(m, jobId, status, attempts, error, failAt) ==
    LET list == PushTrim(m.list,
                         [jobId |-> jobId, status |-> status,
                          attempts |-> attempts, error |-> error],
                         JobMetricsCap)
    IN  IF failAt = "lpush" THEN m
        ELSE IF failAt = "incr" THEN [m EXCEPT !.list = list]
        ELSE [list |-> list,
              completed |-> m.completed + (IF status = "completed" THEN 1 ELSE 0),
              failed |-> m.failed + (IF status = "failed" THEN 1 ELSE 0)]

\* A sendSMS that validates the recipient and the body first and evaluates
\* the rate limit only for a request that passed.
sendSMS_validatesFirst(to, message, identifier, s, clk, init, failAt) ==
    LET id == IF identifier = "" THEN "default" ELSE identifier
        r  == isAllowed(id, s, clk, init, failAt)
    IN  IF ~isValidPhoneNumber(to)
        THEN [s |-> s, remaining |-> 0, error |-> <<"Invalid phone number format">>]
        ELSE IF message = <<>> \/ Len(trim(message)) = 0
        THEN [s |-> s, remaining |-> 0, error |-> <<"Message cannot be empty">>]
        ELSE [s |-> r.s,
              remaining |-> IF Returned(r.c) THEN Result(r.c).remaining ELSE 0,
              error |->
                 IF r.c.threw THEN <<"Redis client not initialized">>
                 ELSE IF ~Result(r.c).allowed
                 THEN <<"Rate limit exceeded",
                        "Blocked for " \o ToString(Ceil(Result(r.c).blockDuration, 1000))
                             \o " seconds">>
                 ELSE NoError]

(***************************************************************************)
(* SMSService.sendSMS up to the gateway call (part_001:15-43): the rate    *)
(* limit, then the two validations.  Gives the Redis state after           *)
(* isAllowed, the error thrown ("" when the gateway is to be called) and   *)
(* the limiter's result.                                                   *)
(***************************************************************************)
sendSMS_evaluated(to, message, identifier, s, clk, init, failAt) ==
    LET id == IF identifier = "" THEN "default" ELSE identifier
        r  == isAllowed(id, s, clk, init, failAt)
    IN  [s |-> r.s,
         remaining |-> IF Returned(r.c) THEN Result(r.c).remaining ELSE 0,
         error |->
            IF r.c.threw THEN <<"Redis client not initialized">>
            ELSE IF ~Result(r.c).allowed
            THEN <<"Rate limit exceeded",
                   "Blocked for " \o ToString(Ceil(Result(r.c).blockDuration, 1000))
                        \o " seconds">>
            ELSE IF ~isValidPhoneNumber(to)
            THEN <<"Invalid phone number format">>
            ELSE IF message = <<>> \/ Len(trim(message)) = 0
            THEN <<"Message cannot be empty">>
            ELSE NoError]

\* The checks with a store that answers every command of isAllowed.
sendSMS_checks(to, message, identifier, s, clk, init) ==
    sendSMS_evaluated(to, message, identifier, s, clk, init, "none")

\* What the gateway receives (lines 39-43).
smsData(to, message) == [to |-> <<to>>, message |-> trim(message)]

(***************************************************************************)
(* QueueProcessor (src/src/rateLimiter.js:148-443) on BullMQ.              *)
(***************************************************************************)
\* config.retry (config.js:42-46) and the Worker options (lines 163-174).
maxAttempts == 3
retryDelay == 2000
backoffType == "exponential"

\* A worker that lets a job stall twice before it fails it.
maxStalledCount_two == 1 + 1

maxStalledCount == 1

nonRetryableErrors ==
    {"Rate limit exceeded", "Invalid phone number format",
     "Message cannot be empty", "Non-retryable error"}

\* An error message is the sequence of its phrases; includes() looks for one.
shouldRetry(error) ==
    ~(\E i \in 1..Len(error) : error[i] \in nonRetryableErrors)

\* What processSMSJob throws from its catch block (lines 249-254).
Rethrown(error) ==
    IF shouldRetry(error) THEN error ELSE <<"Non-retryable error">> \o error

RECURSIVE Pow2(_)
Pow2(n) == IF n <= 0 THEN 1 ELSE 2 * Pow2(n - 1)

\* BullMQ's backoff: 2^(attemptsMade - 1) * delay when exponential, else the
\* delay itself.
Backoff(job) ==
    IF job.opts.backoff.type = "exponential"
    THEN Pow2(job.attemptsMade - 1) * job.opts.backoff.delay
    ELSE job.opts.backoff.delay

\* jobOptions with one attempt too many.
jobOptions_oneMoreAttempt(options) ==
    [attempts |-> maxAttempts + 1,
     backoff |-> [type |-> backoffType, delay |-> retryDelay],
     priority |-> options.priority,
     delay |-> 0,
     identifier |-> options.identifier]

\* addSMSJob's jobOptions (lines 272-283): `...options` comes last, so the
\* caller's options override and any extra key of them is kept.
jobOptions(options) ==
    [attempts |-> maxAttempts,
     backoff |-> [type |-> backoffType, delay |-> retryDelay],
     priority |-> options.priority,
     delay |-> 0,
     identifier |-> options.identifier]

\* Queue.add: a new job, waiting.
NewJob(data, options) ==
    [data |-> data, opts |-> jobOptions(options), state |-> "waiting",
     attemptsMade |-> 0, attemptsStarted |-> 0, stalledCounter |-> 0,
     lock |-> 0, delayUntil |-> 0, progress |-> 0,
     returnvalue |-> <<>>, failedReason |-> NoError]

\* The waiting jobs in the order they run: priority 0 first, then ascending
\* priority, first come first served within one priority.
RECURSIVE InsertWaiting(_, _, _)
InsertWaiting(w, j, js) ==
    IF w = <<>> THEN <<j>>
    ELSE IF js[Head(w)].opts.priority <= js[j].opts.priority
         THEN <<Head(w)>> \o InsertWaiting(Tail(w), j, js)
         ELSE <<j>> \o w

\* The delayed jobs whose time has come, earliest first.
RECURSIVE Promote(_, _, _)
Promote(js, w, clk) ==
    LET due == {j \in DOMAIN js : js[j].state = "delayed" /\ js[j].delayUntil <= clk}
    IN  IF due = {} THEN [jobs |-> js, wait |-> w]
        ELSE LET j == CHOOSE x \in due : \A y \in due :
                          \/ js[x].delayUntil < js[y].delayUntil
                          \/ js[x].delayUntil = js[y].delayUntil /\ x <= y
                 js2 == [js EXCEPT ![j].state = "waiting"]
             IN  Promote(js2, InsertWaiting(w, j, js2), clk)

\* Job.moveToCompleted by the execution `run` of job j: refused without the
\* job's lock.
moveToCompleted(js, j, run, result) ==
    IF js[j].state # "active" \/ js[j].lock # run THEN js
    ELSE [js EXCEPT ![j].state = "completed", ![j].lock = 0,
                    ![j].returnvalue = <<result>>]

\* moveToFailed that never gives a job up: every failed attempt is retried.
moveToFailed_alwaysRetries(js, j, run, error, clk) ==
    IF js[j].state # "active" \/ js[j].lock # run THEN js
    ELSE LET made == [js EXCEPT ![j].attemptsMade = @ + 1,
                                ![j].failedReason = error, ![j].lock = 0]
         IN  [made EXCEPT ![j].state = "delayed",
                          ![j].delayUntil = clk + Backoff(made[j])]

\* Job.moveToFailed by the execution `run` of job j: refused without the
\* job's lock; a job with attempts left is delayed by its backoff.
moveToFailed(js, j, run, error, clk) ==
    IF js[j].state # "active" \/ js[j].lock # run THEN js
    ELSE LET made == [js EXCEPT ![j].attemptsMade = @ + 1,
                                ![j].failedReason = error, ![j].lock = 0]
         IN  IF made[j].attemptsMade < made[j].opts.attempts
             THEN [made EXCEPT ![j].state = "delayed",
                               ![j].delayUntil = clk + Backoff(made[j])]
             ELSE [made EXCEPT ![j].state = "failed"]

(***************************************************************************)
(* The worker.  An execution is one call of processSMSJob in a worker      *)
(* slot: [job, run, pc, error, result, remaining], where run counts the    *)
(* executions of the job and is the token of the lock it took, pc is the   *)
(* await it stands at ("gateway": client.SMS.send; "update": the updates   *)
(* of the success path, lines 229-235; "catch": those of the catch block,  *)
(* lines 241-246), and error is what the try block threw.                  *)
(***************************************************************************)
\* A call of logSMSDelivery from sendSMS: redisClient.getClient() (line 92)
\* stands before the try block and throws when the client is not connected.
Logged(to, message, status, apiResponse, error, failAt) ==
    IF initialized
    THEN logSMSDelivery(deliveryLog, dailyLog, to, message, status,
                        apiResponse, error, now, failAt)
    ELSE [lists |-> [deliveryLog |-> deliveryLog, dailyLog |-> dailyLog],
          thrown |-> <<"Redis client not initialized">>]

\* The error sendSMS throws from its catch block (lines 62-67): the error of
\* the try block, or the one logSMSDelivery threw while logging it.
Thrown(error, log) == IF log.thrown # NoError THEN log.thrown ELSE error

\* The commands of logSMSDelivery and of updateJobMetrics that the model lets
\* reject, and "none".
LogOutcomes == {"none", "lpush", "lpushDaily"}
MetricsOutcomes == {"none", "lpush", "incr"}

Replace(e, e2) == (execs \ {e}) \cup {e2}

\* Execution e holds its job: the job is active under the lock e took.
Holds(e) == jobs[e.job].state = "active" /\ jobs[e.job].lock = e.run

\* The worker events 'completed' and 'failed' (lines 187-195) fire when the
\* move was made, that is when the execution still held the job's lock.
Emit(j, run, status, error, js, failAt) ==
    IF jobs[j].state = "active" /\ jobs[j].lock = run /\ initialized
    THEN updateJobMetrics(jobMetrics, j, status, js[j].attemptsMade, error, failAt)
    ELSE jobMetrics

\* NotificationSystem.initialize (index.js:14-38): connect to Redis, create
\* the queue and the worker, mount the routes.
initialize ==
    /\ ~running
    /\ running' = TRUE
    /\ initialized' = TRUE
    /\ UNCHANGED <<now, redis, limiterVars, jobs, wait, execs, resp, recorderVars>>

\* A worker that takes a job whether or not a slot is free.
FreeSlot_always == TRUE

\* The worker runs at most `concurrency` executions of processSMSJob at once.
FreeSlot == Cardinality(execs) < concurrency

\* A free slot takes the next job (delayed jobs whose time has come are
\* promoted first) and runs processSMSJob into sendSMS, up to the gateway
\* call or to the error that the checks of sendSMS throw.
processSMSJob_attempt(logFails, failAt) ==
    /\ running
    /\ FreeSlot
    /\ LET p == Promote(jobs, wait, now)
       IN  /\ p.wait # <<>>
           /\ LET j   == Head(p.wait)
                  job == p.jobs[j]
                  run == job.attemptsStarted + 1
                  chk == sendSMS_evaluated(job.data.to, job.data.message,
                                           job.data.identifier, redis, now,
                                           initialized, failAt)
                  log == IF chk.error = NoError
                         THEN [lists |-> [deliveryLog |-> deliveryLog,
                                          dailyLog |-> dailyLog],
                               thrown |-> NoError]
                         ELSE Logged(job.data.to, job.data.message, "failed",
                                     <<>>, chk.error, logFails)
              IN  /\ logFails # "none" => chk.error # NoError
                  /\ jobs' = [p.jobs EXCEPT ![j].state = "active", ![j].lock = run,
                                            ![j].attemptsStarted = run]
                  /\ wait' = Tail(p.wait)
                  /\ redis' = chk.s
                  /\ execs' = execs \cup
                        {[job |-> j, run |-> run,
                          pc |-> IF chk.error = NoError THEN "gateway" ELSE "catch",
                          error |-> Thrown(chk.error, log), result |-> <<>>,
                          remaining |-> chk.remaining]}
                  /\ deliveryLog' = log.lists.deliveryLog
                  /\ dailyLog' = log.lists.dailyLog
    /\ UNCHANGED <<now, initialized, limiterVars, running, resp, jobMetrics, recording>>

\* The attempt with a store that answers every command of isAllowed.
processSMSJob(logFails) == processSMSJob_attempt(logFails, "none")

\* client.SMS.send answers with a recipient's messageId, status and cost
\* (part_001:45-60): the delivery is logged and sendSMS returns.
gatewaySucceeds(e, logFails) ==
    /\ e \in execs /\ e.pc = "gateway"
    /\ LET job == jobs[e.job]
           apiResponse == <<[messageId |-> "ATXid_1", status |-> "Success"]>>
           log == Logged(job.data.to, job.data.message, "success", apiResponse,
                         NoError, logFails)
           result == [success |-> TRUE, messageId |-> "ATXid_1", status |-> "Success",
                      cost |-> "KES 0.8000",
                      rateLimit |-> [allowed |-> TRUE, remaining |-> e.remaining]]
       IN  /\ execs' = Replace(e,
                  IF log.thrown = NoError
                  THEN [e EXCEPT !.pc = "update", !.result = <<result>>]
                  ELSE [e EXCEPT !.pc = "catch", !.error = log.thrown])
           /\ deliveryLog' = log.lists.deliveryLog
           /\ dailyLog' = log.lists.dailyLog
    /\ UNCHANGED <<now, initialized, redis, limiterVars, running, jobs, wait, resp, jobMetrics, recording>>

\* client.SMS.send rejects (part_001:62-67): the failure is logged and rethrown.
gatewayFails(e, logFails) ==
    /\ e \in execs /\ e.pc = "gateway"
    /\ LET job == jobs[e.job]
           error == <<"Gateway error">>
           log == Logged(job.data.to, job.data.message, "failed", <<>>, error,
                         logFails)
       IN  /\ execs' = Replace(e, [e EXCEPT !.pc = "catch",
                                             !.error = Thrown(error, log)])
           /\ deliveryLog' = log.lists.deliveryLog
           /\ dailyLog' = log.lists.dailyLog
    /\ UNCHANGED <<now, initialized, redis, limiterVars, running, jobs, wait, resp, jobMetrics, recording>>

\* Lines 229-237: both updates go through, processSMSJob returns the result
\* and the worker moves the job to completed.
recordResult(e, metricsFail) ==
    /\ e \in execs /\ e.pc = "update"
    /\ LET js == [jobs EXCEPT ![e.job].progress = 100]
           done == moveToCompleted(js, e.job, e.run, e.result[1])
       IN  /\ jobs' = done
           /\ jobMetrics' = Emit(e.job, e.run, "completed", NoError, done, metricsFail)
           /\ metricsFail # "none" => Holds(e)
    /\ execs' = execs \ {e}
    /\ UNCHANGED <<now, initialized, redis, limiterVars, running, wait, resp,
                   deliveryLog, dailyLog, recording>>

\* Lines 229-235: job.updateProgress(100) rejects, or job.addResult does
\* (BullMQ's Job has no addResult: the call is a TypeError); the catch block
\* of processSMSJob takes over.
recordResultFails(e, at) ==
    /\ e \in execs /\ e.pc = "update"
    /\ execs' = Replace(e, [e EXCEPT !.pc = "catch",
                  !.error = IF at = "addResult"
                            THEN <<"job.addResult is not a function">>
                            ELSE <<"Connection is closed.">>])
    /\ jobs' = IF at = "addResult" THEN [jobs EXCEPT ![e.job].progress = 100] ELSE jobs
    /\ UNCHANGED <<now, initialized, redis, limiterVars, running, wait, resp, recorderVars>>

\* Lines 241-254: both updates of the catch block go through; the error is
\* rethrown as it is or wrapped as non-retryable, and the worker fails the
\* attempt.
handleError(e, metricsFail) ==
    /\ e \in execs /\ e.pc = "catch"
    /\ LET js == [jobs EXCEPT ![e.job].progress = 0]
           failed == moveToFailed(js, e.job, e.run, Rethrown(e.error), now)
       IN  /\ jobs' = failed
           /\ jobMetrics' = Emit(e.job, e.run, "failed", Rethrown(e.error), failed,
                                  metricsFail)
           /\ metricsFail # "none" => Holds(e)
    /\ execs' = execs \ {e}
    /\ UNCHANGED <<now, initialized, redis, limiterVars, running, wait, resp,
                   deliveryLog, dailyLog, recording>>

\* Lines 241-246: an update of the catch block rejects; its error leaves
\* processSMSJob and the worker fails the attempt with it.
handleErrorFails(e, at, metricsFail) ==
    /\ e \in execs /\ e.pc = "catch"
    /\ LET error == IF at = "addResult"
                    THEN <<"job.addResult is not a function">>
                    ELSE <<"Connection is closed.">>
           js == IF at = "addResult" THEN [jobs EXCEPT ![e.job].progress = 0] ELSE jobs
           failed == moveToFailed(js, e.job, e.run, error, now)
       IN  /\ jobs' = failed
           /\ jobMetrics' = Emit(e.job, e.run, "failed", error, failed, metricsFail)
           /\ metricsFail # "none" => Holds(e)
    /\ execs' = execs \ {e}
    /\ UNCHANGED <<now, initialized, redis, limiterVars, running, wait, resp,
                   deliveryLog, dailyLog, recording>>

\* The lock of an active job ran out and the worker's stalled-jobs check
\* found it (stalledInterval, maxStalledCount: lines 169-172): the job goes
\* back to the head of the waiting jobs, or fails once it has stalled more
\* than maxStalledCount times.  The execution that held it runs on.
stalled(j, metricsFail) ==
    /\ running
    /\ j \in DOMAIN jobs
    /\ jobs[j].state = "active"
    /\ IF jobs[j].stalledCounter + 1 > maxStalledCount
       THEN /\ jobs' = [jobs EXCEPT ![j].state = "failed", ![j].lock = 0,
                          ![j].stalledCounter = @ + 1,
                          ![j].failedReason = <<"job stalled more than allowable limit">>]
            /\ wait' = wait
            /\ jobMetrics' = updateJobMetrics(jobMetrics, j, "failed",
                                jobs[j].attemptsMade,
                                <<"job stalled more than allowable limit">>,
                                metricsFail)
       ELSE /\ jobs' = [jobs EXCEPT ![j].state = "waiting", ![j].lock = 0,
                          ![j].stalledCounter = @ + 1]
            /\ wait' = <<j>> \o wait
            /\ jobMetrics' = jobMetrics
            /\ metricsFail = "none"
    /\ UNCHANGED <<now, initialized, redis, limiterVars, running, execs, resp,
                   deliveryLog, dailyLog, recording>>

(***************************************************************************)
(* The HTTP handlers (src/src/index.js, class APIRouter) over              *)
(* QueueProcessor.addSMSJob and addBulkSMSJobs.                            *)
(***************************************************************************)
ValidPhone == <<"+", "2", "5", "4", "7">>
BadPhone   == <<"0", "7", "1">>
Hi         == <<"h", "i">>
Blank      == <<" ">>

\* The bodies of POST /sms/send the model submits.
SingleRequests ==
    {[to |-> ValidPhone, message |-> Hi,    identifier |-> "u1", priority |-> 1],
     [to |-> ValidPhone, message |-> Hi,    identifier |-> "",   priority |-> 0],
     [to |-> BadPhone,   message |-> Hi,    identifier |-> "u1", priority |-> 0],
     [to |-> ValidPhone, message |-> Blank, identifier |-> "u1", priority |-> 0],
     [to |-> <<>>,       message |-> Hi,    identifier |-> "u1", priority |-> 0]}

\* The items of POST /sms/bulk the model submits.
BulkItems ==
    {[to |-> ValidPhone, message |-> Hi],
     [to |-> BadPhone,   message |-> Hi],
     [to |-> <<>>,       message |-> Hi]}

BulkMessages == UNION {[1..n -> BulkItems] : n \in 0..MaxBulk}

Falsy(x) == x = <<>>

\* addSMSJob (lines 271-293): the job is added to `js` and to the waiting jobs.
addSMSJob(js, w, data, options) ==
    LET js2 == Append(js, NewJob(data, options))
    IN  [jobs |-> js2, wait |-> InsertWaiting(w, Len(js2), js2), id |-> Len(js2)]

\* APIRouter.sendSMS (index.js:228-264).  outcome: "queued"; "addFailed",
\* queue.add rejects; "positionFailed", the job is added and
\* job.getQueuePosition() throws.
sendSMS(req, outcome) ==
    /\ running
    /\ IF Falsy(req.to) \/ Falsy(req.message)
       THEN /\ outcome = "queued"
            /\ resp' = [op |-> "send", status |-> 400, results |-> <<>>,
                        enqueued |-> {}]
            /\ UNCHANGED <<jobs, wait>>
       ELSE IF outcome = "addFailed"
       THEN /\ resp' = [op |-> "send", status |-> 500, results |-> <<>>,
                        enqueued |-> {}]
            /\ UNCHANGED <<jobs, wait>>
       ELSE /\ LET added == addSMSJob(jobs, wait,
                               [to |-> req.to, message |-> req.message,
                                identifier |-> IF req.identifier = "" THEN "api"
                                               ELSE req.identifier,
                                priority |-> req.priority],
                               [priority |-> 0, identifier |-> ""])
               IN  /\ jobs' = added.jobs
                   /\ wait' = added.wait
                   /\ resp' = [op |-> "send",
                               status |-> IF outcome = "queued" THEN 202 ELSE 500,
                               results |-> <<>>, enqueued |-> {added.id}]
    /\ UNCHANGED <<now, initialized, redis, limiterVars, running, execs, recorderVars>>

\* addBulkSMSJobs (lines 295-308): one addSMSJob per message, in order; the
\* messages at the indices `failing` are those whose queue.add rejects.
RECURSIVE addBulkSMSJobs(_, _, _, _, _, _)
addBulkSMSJobs(js, w, messages, options, failing, i) ==
    IF i > Len(messages) THEN [jobs |-> js, wait |-> w, results |-> <<>>]
    ELSE IF i \in failing
    THEN LET rest == addBulkSMSJobs(js, w, messages, options, failing, i + 1)
         IN  [rest EXCEPT !.results = <<[success |-> FALSE, jobId |-> 0]>> \o @]
    ELSE LET added == addSMSJob(js, w,
                         [to |-> messages[i].to, message |-> messages[i].message,
                          identifier |-> "", priority |-> 0],
                         options)
             rest == addBulkSMSJobs(added.jobs, added.wait, messages, options,
                                    failing, i + 1)
         IN  [rest EXCEPT !.results = <<[success |-> TRUE, jobId |-> added.id]>> \o @]

\* APIRouter.sendBulkSMS (index.js:266-314).
sendBulkSMS(messages, identifier, priority, failing) ==
    /\ running
    /\ IF messages = <<>>
          \/ \E i \in 1..Len(messages) :
                Falsy(messages[i].to) \/ Falsy(messages[i].message)
       THEN /\ failing = {}
            /\ resp' = [op |-> "bulk", status |-> 400, results |-> <<>>,
                        enqueued |-> {}]
            /\ UNCHANGED <<jobs, wait>>
       ELSE /\ LET added == addBulkSMSJobs(jobs, wait, messages,
                               [identifier |-> IF identifier = "" THEN "bulk-api"
                                               ELSE identifier,
                                priority |-> priority],
                               failing, 1)
               IN  /\ jobs' = added.jobs
                   /\ wait' = added.wait
                   /\ resp' = [op |-> "bulk", status |-> 202,
                               results |-> added.results,
                               enqueued |-> {added.results[i].jobId :
                                   i \in {k \in 1..Len(messages) :
                                            added.results[k].success}}]
    /\ UNCHANGED <<now, initialized, redis, limiterVars, running, execs, recorderVars>>

\* The requests of POST /sms/bulk the model submits: the messages, the
\* identifier and priority of the body, and the items whose queue.add rejects.
BulkRequests ==
    {[messages |-> m, identifier |-> o[1], priority |-> o[2], failing |-> f] :
        m \in BulkMessages, o \in {<<"", 0>>, <<"u1", 1>>},
        f \in SUBSET (1..MaxBulk)}

\* The requests that pass the handlers' checks of required fields.
Complete(item) == ~Falsy(item.to) /\ ~Falsy(item.message)

\* The clock runs on to the time a delayed job is due.
TickQueue ==
    \E j \in DOMAIN jobs :
        /\ jobs[j].state = "delayed"
        /\ jobs[j].delayUntil > now
        /\ Tick(jobs[j].delayUntil - now, QueueMaxTime)

\* The whole system: requests with their fields come in and are queued, the
\* worker runs the jobs, locks run out, the clock reaches the retry times.
Next ==
    \/ initialize
    \/ TickQueue
    \/ \E req \in SingleRequests :
            /\ Complete(req)
            /\ sendSMS(req, "queued")
            /\ Len(jobs') <= MaxJobs
    \/ \E item \in BulkItems :
            /\ Complete(item)
            /\ sendBulkSMS(<<item>>, "", 0, {})
            /\ Len(jobs') <= MaxJobs
    \/ processSMSJob("none")
    \/ \E e \in execs : gatewaySucceeds(e, "none")
    \/ \E e \in execs : gatewayFails(e, "none")
    \/ \E e \in execs : recordResult(e, "none")
    \/ \E e \in execs, at \in {"updateProgress", "addResult"} : recordResultFails(e, at)
    \/ \E e \in execs : handleError(e, "none")
    \/ \E e \in execs, at \in {"updateProgress", "addResult"} :
            handleErrorFails(e, at, "none")
    \/ \E j \in DOMAIN jobs : stalled(j, "none")

Spec == Init /\ [][Next]_vars

\* QueueProcessor.getJobStatus (rateLimiter.js:310-341), as a sequence of 0
\* or 1: null for a job the queue does not hold and, from the catch block,
\* when the store rejects the read.
getJobStatus(js, jobId, storeOk) ==
    IF ~storeOk THEN <<>>
    ELSE IF jobId \notin DOMAIN js THEN <<>>
    ELSE <<[id |-> jobId, state |-> js[jobId].state]>>

\* QueueProcessor.getQueueStats (rateLimiter.js:343-365), as a sequence of 0
\* or 1: null from the catch block when the store rejects a read.
getQueueStats(js, storeOk) ==
    LET n(state) == Cardinality({j \in DOMAIN js : js[j].state = state})
    IN  IF ~storeOk THEN <<>>
        ELSE <<[waiting |-> n("waiting"), active |-> n("active"),
                completed |-> n("completed"), failed |-> n("failed"),
                delayed |-> n("delayed"), total |-> Len(js)]>>

\* APIRouter.getSMSStatus (index.js:316-349): GET /sms/status/:jobId.
getSMSStatus(jobId, storeOk) ==
    /\ running
    /\ LET jobStatus == getJobStatus(jobs, jobId, storeOk)
       IN  resp' = [op |-> "status",
                    status |-> IF jobStatus = <<>> THEN 404 ELSE 200,
                    results |-> jobStatus, enqueued |-> {}]
    /\ UNCHANGED <<now, initialized, redis, limiterVars, running, jobs, wait, execs,
                   recorderVars>>

\* APIRouter.getQueueStats (index.js:351-370): GET /queue/stats; the body is
\* {success: true, stats, recentMetrics} whatever getQueueStats returned.
APIRouter_getQueueStats(storeOk) ==
    /\ running
    /\ resp' = [op |-> "stats", status |-> 200,
                results |-> getQueueStats(jobs, storeOk), enqueued |-> {}]
    /\ UNCHANGED <<now, initialized, redis, limiterVars, running, jobs, wait, execs,
                   recorderVars>>

\* The job ids GET /sms/status is asked for: those of the jobs the model
\* submits and one more.
JobIds == 1..(MaxSubmitted + 1)

\* The HTTP handlers alone, with every request of the model, every outcome
\* of queue.add and a store that may reject the reads.
NextSubmit ==
    \/ initialize
    \/ \E req \in SingleRequests,
          outcome \in {"queued", "addFailed", "positionFailed"} :
            /\ sendSMS(req, outcome)
            /\ Len(jobs') <= MaxSubmitted
    \/ \E b \in BulkRequests :
            /\ b.failing \subseteq 1..Len(b.messages)
            /\ sendBulkSMS(b.messages, b.identifier, b.priority, b.failing)
            /\ Len(jobs') <= MaxSubmitted
    \/ \E jobId \in JobIds, storeOk \in BOOLEAN : getSMSStatus(jobId, storeOk)
    \/ \E storeOk \in BOOLEAN : APIRouter_getQueueStats(storeOk)

SpecSubmit == Init /\ [][NextSubmit]_vars

\* The worker with a store that may reject any command of the Outcome
\* Recorder.
NextRecorder ==
    \/ initialize
    \/ TickQueue
    \/ \E req \in SingleRequests :
            /\ Complete(req)
            /\ sendSMS(req, "queued")
            /\ Len(jobs') <= MaxJobs
    \/ \E l \in LogOutcomes : processSMSJob(l)
    \/ \E e \in execs, l \in LogOutcomes : gatewaySucceeds(e, l)
    \/ \E e \in execs, l \in LogOutcomes : gatewayFails(e, l)
    \/ \E e \in execs, m \in MetricsOutcomes : recordResult(e, m)
    \/ \E e \in execs, m \in MetricsOutcomes : handleError(e, m)

SpecRecorder == Init /\ [][NextRecorder]_vars

\* The worker under load: more jobs than it has slots, and no time for a
\* delayed job to come back.
NextPool ==
    \/ initialize
    \/ \E item \in BulkItems :
            /\ Complete(item)
            /\ sendBulkSMS(<<item>>, "", 0, {})
            /\ Len(jobs') <= PoolJobs
    \/ processSMSJob("none")
    \/ \E e \in execs : gatewaySucceeds(e, "none")
    \/ \E e \in execs : gatewayFails(e, "none")
    \/ \E e \in execs : recordResult(e, "none")
    \/ \E e \in execs : handleError(e, "none")
    \/ \E j \in DOMAIN jobs : stalled(j, "none")

SpecPool == Init /\ [][NextPool]_vars

(***************************************************************************)
(* C3 to C9.                                                               *)
(***************************************************************************)
\* Execution e ends in this step.
Ends(e) == \A e2 \in execs' : e2.job # e.job \/ e2.run # e.run

\* The dispatch of execution e failed with a retryable error.
DispatchFailedRetryable(e) ==
    e.pc = "catch" /\ e.result = <<>> /\ e.error # NoError /\ shouldRetry(e.error)

\* The job failed because it stalled too often, not by an attempt.
FailedByStall(job) ==
    job.state = "failed"
        /\ job.failedReason = <<"job stalled more than allowable limit">>

C3_AttemptsWithinMax ==
    \A j \in DOMAIN jobs :
        /\ jobs[j].attemptsMade <= maxAttempts
        /\ jobs[j].state = "delayed" => jobs[j].attemptsMade < maxAttempts
        /\ (jobs[j].state = "failed" /\ ~FailedByStall(jobs[j]))
              => jobs[j].attemptsMade = maxAttempts

C3_FailedAttemptStep ==
    \A e \in execs :
        (DispatchFailedRetryable(e) /\ Holds(e) /\ Ends(e)) =>
            LET made == jobs[e.job].attemptsMade + 1
                job  == jobs'[e.job]
            IN  /\ job.attemptsMade = made
                /\ IF made < maxAttempts
                   THEN /\ job.state = "delayed"
                        /\ job.delayUntil = now + retryDelay * Pow2(made - 1)
                   ELSE job.state = "failed"

C3_FailedStaysFailed ==
    \A j \in DOMAIN jobs :
        jobs[j].state = "failed" =>
            /\ jobs'[j].state = "failed"
            /\ jobs'[j].attemptsMade = jobs[j].attemptsMade
            /\ jobs'[j].attemptsStarted = jobs[j].attemptsStarted

\* C3: an attempt whose dispatch fails with a retryable error raises the
\* job's attempts by exactly one; while attempts < maxAttempts the job goes
\* to Delayed until now + retryDelay * 2^(attempts - 1), a delay that grows
\* from one retry to the next; the job reaches Failed by its attempts exactly
\* when attempts = maxAttempts, never earlier, and is not executed again.
C3_RetryBackoffThenFailed ==
    /\ []C3_AttemptsWithinMax
    /\ [][C3_FailedAttemptStep]_vars
    /\ [][C3_FailedStaysFailed]_vars

\* A job that used up its attempts on gateway errors, one execution per
\* attempt, after the delays retryDelay and 2 * retryDelay.
C3_Witness ==
    \E j \in DOMAIN jobs :
        /\ jobs[j].state = "failed"
        /\ jobs[j].failedReason = <<"Gateway error">>
        /\ jobs[j].attemptsMade = maxAttempts
        /\ jobs[j].attemptsStarted = maxAttempts
        /\ jobs[j].delayUntil = retryDelay + 2 * retryDelay
        /\ now = jobs[j].delayUntil

\* C4: a job whose attempt failed with a non-retryable error (rate-limit
\* rejection, invalid phone number format, empty message) is Failed after
\* that first attempt: it is not Delayed, not run again, and its attempts
\* stay at one.
C4_NonRetryableGoesToFailed ==
    \A j \in DOMAIN jobs :
        (jobs[j].failedReason # NoError /\ ~shouldRetry(jobs[j].failedReason))
            => /\ jobs[j].state = "failed"
               /\ jobs[j].attemptsMade = 1

\* C5: when the gateway send of an attempt succeeded, the attempt ends with
\* the job Completed and that result recorded.
C5_SuccessEndsCompleted ==
    [][\A e \in execs :
          (e.result # <<>> /\ Holds(e) /\ Ends(e))
              => /\ jobs'[e.job].state = "completed"
                 /\ jobs'[e.job].returnvalue = e.result]_vars

\* The identifier a job was submitted for: that of the body of /sms/send, in
\* the job's data, or that of the body of /sms/bulk, in the job's options.
RequestIdentifier(job) ==
    IF job.data.identifier # "" THEN job.data.identifier ELSE job.opts.identifier

\* C6: a job is enqueued only in a step in which isAllowed approved the
\* request's identifier (the approved call's event, at the time of the
\* request, is in the identifier's window) and the identifier is not blocked.
C6_JobOnlyAfterApproval ==
    [][\A j \in DOMAIN jobs' :
          j \notin DOMAIN jobs =>
              /\ BagIn(now, redis'.zset[RequestIdentifier(jobs'[j])])
              /\ redis'.blk[RequestIdentifier(jobs'[j])] = 0]_vars

\* An item the system cannot send: a field missing, a phone number not in
\* the international format, or a blank message.
Invalid(item) ==
    \/ ~Complete(item)
    \/ ~isValidPhoneNumber(item.to)
    \/ Len(trim(item.message)) = 0

\* C7: a bulk request of N items of which exactly item K is invalid is
\* answered with N results in input order, a failure at K and successes
\* elsewhere; the N - 1 valid items are enqueued, each as its own job, and
\* the invalid item is not.
C7_BulkIsPerItem ==
    [][\A b \in BulkRequests :
          LET m == b.messages
              N == Len(m)
              bad == {i \in 1..N : Invalid(m[i])}
          IN  (/\ b.failing = {}
               /\ Cardinality(bad) = 1
               /\ sendBulkSMS(m, b.identifier, b.priority, b.failing))
              => /\ resp'.status = 202
                 /\ Len(resp'.results) = N
                 /\ \A i \in 1..N : resp'.results[i].success <=> i \notin bad
                 /\ Len(jobs') = Len(jobs) + N - 1
                 /\ \A i \in 1..N \ bad :
                       /\ resp'.results[i].jobId \in DOMAIN jobs' \ DOMAIN jobs
                       /\ jobs'[resp'.results[i].jobId].data.to = m[i].to
                       /\ jobs'[resp'.results[i].jobId].data.message = m[i].message]_vars

\* The jobs in Active state.
Active == {j \in DOMAIN jobs : jobs[j].state = "active"}

\* C8: the jobs in Active state, and the executions of processSMSJob in
\* flight, number at most `concurrency`.
C8_ActiveAtMostConcurrency ==
    /\ Cardinality(Active) <= concurrency
    /\ Cardinality(execs) <= concurrency

\* Every slot is busy with an active job while another job waits.
C8_Witness ==
    /\ Cardinality(Active) = concurrency
    /\ wait # <<>>

\* C9: each job has at most one execution of processSMSJob in flight.
C9_OneExecutionPerJob ==
    \A e1, e2 \in execs : e1.job = e2.job => e1 = e2

(***************************************************************************)
(* C11: the recorder.                                                      *)
(***************************************************************************)

\* Execution e after the step.
After(e) == CHOOSE e2 \in execs' : e2.job = e.job /\ e2.run = e.run

\* C11: a write of the delivery log or of the job metrics that fails never
\* propagates.  When the log write fails after a successful send, sendSMS
\* returns the gateway's success result and the job stays as it was; when the
\* log write fails after a failed send, the error thrown is the send's own;
\* when the metrics write fails, the job is completed or failed exactly as
\* with a working recorder.
C11_RecorderFailureIsSwallowed ==
    [][/\ \A e \in execs : \A l \in LogOutcomes \ {"none"} :
            /\ gatewaySucceeds(e, l)
                  => /\ After(e).pc = "update"
                     /\ After(e).result # <<>>
                     /\ After(e).result[1].success
                     /\ After(e).error = NoError
                     /\ jobs' = jobs
            /\ gatewayFails(e, l)
                  => /\ After(e).pc = "catch"
                     /\ After(e).error = <<"Gateway error">>
                     /\ jobs' = jobs
       /\ \A e \in execs : \A m \in MetricsOutcomes \ {"none"} :
            /\ recordResult(e, m)
                  => /\ jobs'[e.job].state = "completed"
                     /\ jobs'[e.job].returnvalue = <<e.result[1]>>
                     /\ jobs'[e.job].attemptsMade = jobs[e.job].attemptsMade
            /\ handleError(e, m)
                  => jobs' = moveToFailed([jobs EXCEPT ![e.job].progress = 0],
                                          e.job, e.run, Rethrown(e.error), now)]_vars

\* A job is completed although neither its delivery log entry nor its
\* metrics entry could be written.
C11_Witness ==
    /\ \E j \in DOMAIN jobs : jobs[j].state = "completed"
    /\ deliveryLog = <<>>
    /\ jobMetrics.list = <<>>

(***************************************************************************)
(* RateLimiter.reset (rateLimiter.js:82-94), called while a call of        *)
(* isAllowed is in flight.                                                 *)
(***************************************************************************)
\* getClient() stands before the try block; DEL key blockKey, then true, or
\* false from the catch block when DEL rejects.
reset(id, s, init, delOk) ==
    IF ~init THEN [s |-> s, threw |-> TRUE, ret |-> <<>>]
    ELSE IF delOk THEN [s |-> Del(s, id), threw |-> FALSE, ret |-> <<TRUE>>]
    ELSE [s |-> s, threw |-> FALSE, ret |-> <<FALSE>>]

\* A call of reset, run to its end.
CallReset(id, delOk) ==
    LET r == reset(id, redis, initialized, delOk)
    IN  /\ redis' = r.s
        /\ last' = [op |-> IF ~r.threw /\ r.ret = <<TRUE>> THEN "reset" ELSE "resetFailed",
                    id |-> id, at |-> now, c |-> NoCall, pre |-> redis, recent |-> 0]
        /\ admitted' = IF r.s = redis THEN admitted
                       ELSE [admitted EXCEPT ![id] = EmptyBag]
        /\ UNCHANGED <<now, initialized, callers, queueVars, recorderVars>>

\* The call of isAllowed in flight: caller 1.
InFlight == 1

\* The identifier that is reset.
ResetId == "u1"

\* reset returned true for identifier id and no call of isAllowed for any
\* identifier was made since.
ResetReturned(id) == last.op = "reset" /\ last.id = id

NextReset ==
    \/ connect
    \/ Tick(Step, LimiterMaxTime)
    \/ SeqIsAllowed(ResetId)
    \/ \E delOk \in BOOLEAN : CallReset(ResetId, delOk)
    \/ ~ResetReturned(ResetId) /\ CallIsAllowed(InFlight, ResetId)
    \/ CmdTtl(InFlight)
    \/ CmdZremrangebyscore(InFlight)
    \/ CmdZcard(InFlight)
    \/ CmdSetex(InFlight)
    \/ CmdZrange(InFlight)
    \/ CmdZadd(InFlight)
    \/ CmdExpire(InFlight)

SpecReset == Init /\ [][NextReset]_vars

\* C12: whenever reset(id) has returned true, the next call of isAllowed for
\* id is admitted, not blocked, with remaining = maxRequests - 1, as for an
\* identifier with no history; also when reset ran while a call of isAllowed
\* for id was in flight.
C12_ResetClearsHistory ==
    [][\A id \in {ResetId} :
          (ResetReturned(id) /\ SeqIsAllowed(id))
             => /\ Admitted(last'.c)
                /\ ~Result(last'.c).blocked
                /\ Result(last'.c).remaining = maxRequests - 1]_vars

\* The part of C12 about admission alone: the next call is admitted.  It
\* fails when the call in flight had read a full window before the reset and
\* sets its block after it.
C12_NextCallAdmitted ==
    [][\A id \in {ResetId} :
          (ResetReturned(id) /\ SeqIsAllowed(id)) => Admitted(last'.c)]_vars

\* The part of C12 that reset does provide: with no call of isAllowed in
\* flight, the next call is admitted as a first one.
C12_ResetClearsHistoryWhenAlone ==
    [][\A id \in {ResetId} :
          (ResetReturned(id) /\ callers[InFlight].pc = "idle" /\ SeqIsAllowed(id))
             => /\ Admitted(last'.c)
                /\ ~Result(last'.c).blocked
                /\ Result(last'.c).remaining = maxRequests - 1]_vars

(***************************************************************************)
(* RateLimiter.getStatus (rateLimiter.js:96-138), called in sequence with  *)
(* isAllowed.                                                              *)
(***************************************************************************)
StatusSteps == {"ttl", "zremrangebyscore", "zcard"}

\* The catch block of getStatus (lines 127-136).
getStatus_catch(id, s, clk) ==
    [s |-> s, threw |-> FALSE,
     ret |-> <<[allowed |-> TRUE, remaining |-> maxRequests,
                resetTime |-> clk + windowMs, blocked |-> FALSE,
                blockDuration |-> undefined]>>]

\* getStatus that counts the asking call as isAllowed counts the admitted one.
getStatus_countsItself(id, s, clk, init, failAt) ==
    LET r == isAllowed(id, s, clk, init, failAt)
    IN  [s |-> ZRemRangeByScore(s, id, 0, clk - windowMs),
         threw |-> r.c.threw, ret |-> r.c.ret]

\* getStatus that blocks an identifier found at capacity, as isAllowed does.
getStatus_blocks(id, s, clk, init, failAt) ==
    LET r == isAllowed(id, s, clk, init, failAt)
        pruned == ZRemRangeByScore(s, id, 0, clk - windowMs)
    IN  [s |-> [pruned EXCEPT !.blk = r.s.blk],
         threw |-> r.c.threw,
         ret |-> IF Returned(r.c) /\ Result(r.c).allowed
                 THEN <<[Result(r.c) EXCEPT !.remaining = @ + 1]>>
                 ELSE r.c.ret]

\* The commands of getStatus in one piece; the command failAt rejects
\* ("none": no command does).
getStatus(id, s, clk, init, failAt) ==
    IF ~init THEN [s |-> s, threw |-> TRUE, ret |-> <<>>]
    ELSE IF failAt = "ttl" THEN getStatus_catch(id, s, clk)
    ELSE LET blockExpiry == TTL(s.blk[id], clk)
         IN  IF blockExpiry > 0
             THEN [s |-> s, threw |-> FALSE,
                   ret |-> <<[allowed |-> FALSE, remaining |-> 0,
                              resetTime |-> clk + blockExpiry * 1000,
                              blocked |-> TRUE,
                              blockDuration |-> blockExpiry * 1000]>>]
             ELSE IF failAt = "zremrangebyscore" THEN getStatus_catch(id, s, clk)
             ELSE LET pruned == ZRemRangeByScore(s, id, 0, clk - windowMs)
                      currentRequests == ZCard(pruned, id)
                      remaining == IF maxRequests - currentRequests > 0
                                   THEN maxRequests - currentRequests ELSE 0
                  IN  IF failAt = "zcard" THEN getStatus_catch(id, pruned, clk)
                      ELSE [s |-> pruned, threw |-> FALSE,
                            ret |-> <<[allowed |-> remaining > 0,
                                       remaining |-> remaining,
                                       resetTime |-> clk + windowMs,
                                       blocked |-> FALSE,
                                       blockDuration |-> undefined]>>]

\* A call of getStatus, run to its end.
SeqGetStatus(id, failAt) ==
    LET r == getStatus(id, redis, now, initialized, failAt)
    IN  /\ redis' = r.s
        /\ last' = [op |-> "getStatus", id |-> id, at |-> now,
                    c |-> [NoCall EXCEPT !.pc = "done", !.id = id, !.now = now,
                                         !.ret = r.ret, !.threw = r.threw,
                                         !.fault = IF ~initialized THEN "notConnected"
                                                   ELSE failAt],
                    pre |-> redis, recent |-> 0]
        /\ UNCHANGED <<now, initialized, admitted, callers, queueVars, recorderVars>>

NextStatus ==
    \/ connect
    \/ Tick(Step, StatusMaxTime)
    \/ \E id \in CallerIds : SeqIsAllowed(id)
    \/ \E id \in CallerIds, failAt \in StatusSteps \cup {"none"} : SeqGetStatus(id, failAt)

SpecStatus == Init /\ [][NextStatus]_vars

\* The latest call was a getStatus that no store failure cut short.
StatusReturned == last.op = "getStatus" /\ Returned(last.c) /\ last.c.fault = "none"

\* What isAllowed returns for the state the latest getStatus was made in.
Evaluated == Result(isAllowed(last.id, last.pre, last.at, TRUE, "none").c)

\* C13 as stated: for every state of an identifier's window and block,
\* getStatus and isAllowed applied to that state return the same allowed
\* value and the same remaining value.
C13_SameAllowedSameRemaining ==
    StatusReturned
        => /\ Result(last.c).allowed = Evaluated.allowed
           /\ Result(last.c).remaining = Evaluated.remaining

\* C13, amended: for every state of an identifier's window and block,
\* getStatus and isAllowed applied to that state return the same allowed
\* value; they return the same remaining value (0) when the call is not
\* allowed, and isAllowed returns one less than getStatus when it is, for it
\* counts the event it records.
C13_SameAllowedRemainingLessOne ==
    StatusReturned
        => /\ Result(last.c).allowed = Evaluated.allowed
           /\ Evaluated.remaining =
                 Result(last.c).remaining - (IF Evaluated.allowed THEN 1 ELSE 0)
           /\ ~Evaluated.allowed => Evaluated.remaining = 0

\* getStatus was asked of a partly filled window and told what isAllowed
\* would not: one more than isAllowed's remaining.
C13_Witness ==
    /\ StatusReturned
    /\ last.pre.zset[last.id] # EmptyBag
    /\ Result(last.c).allowed
    /\ Result(last.c).remaining = Evaluated.remaining + 1

\* C14 as stated: a call of getStatus leaves the stored events and the block
\* of every identifier unchanged.
C14_PureRead ==
    [][\A id \in CallerIds, failAt \in StatusSteps \cup {"none"} :
          SeqGetStatus(id, failAt) => redis' = redis]_vars

\* The events of identifier id in Redis state s that are older than the
\* window ending at clk.
Stale(s, id, clk) == {x \in DOMAIN s.zset[id] : x <= clk - windowMs}

\* C14, amended: a call of getStatus(identifier) leaves the block of every
\* identifier and the events of every other identifier unchanged; it never
\* creates a block and never adds an event, and the only events it removes
\* are those of its identifier older than now - windowMs.
C14_RemovesOnlyStaleEvents ==
    [][\A id \in CallerIds, failAt \in StatusSteps \cup {"none"} :
          SeqGetStatus(id, failAt)
             => /\ redis'.blk = redis.blk
                /\ \A i \in Identifiers \ {id} : redis'.zset[i] = redis.zset[i]
                /\ \A x \in DOMAIN redis'.zset[id] :
                      /\ x \in DOMAIN redis.zset[id]
                      /\ redis'.zset[id][x] = redis.zset[id][x]
                /\ \A x \in DOMAIN redis.zset[id] \ DOMAIN redis'.zset[id] :
                      x \in Stale(redis, id, now)]_vars

\* getStatus was asked of an identifier at capacity and unblocked, removed a
\* stale event and left the identifier unblocked.
C14_Witness ==
    /\ StatusReturned
    /\ Stale(last.pre, last.id, last.at) # {}
    /\ Stale(redis, last.id, last.at) = {}
    /\ ZCard(last.pre, last.id) >= maxRequests
    /\ redis.blk[last.id] = 0

(***************************************************************************)
(* The order the worker takes the jobs in: submissions with priorities and *)
(* identifiers, the worker, stalled-job recovery.                          *)
(***************************************************************************)
\* The priorities and identifiers of the bodies of POST /sms/bulk.
BulkPriorities == {1, 2}
BulkIdentifiers == {"", "u1"}

NextOrder ==
    \/ initialize
    \/ \E req \in SingleRequests :
            /\ Complete(req)
            /\ sendSMS(req, "queued")
            /\ Len(jobs') <= OrderJobs
    \/ \E item \in BulkItems, id \in BulkIdentifiers, p \in BulkPriorities :
            /\ Complete(item)
            /\ sendBulkSMS(<<item>>, id, p, {})
            /\ Len(jobs') <= OrderJobs
    \/ processSMSJob("none")
    \/ \E e \in execs : gatewaySucceeds(e, "none")
    \/ \E e \in execs : recordResult(e, "none")
    \/ \E e \in execs : handleError(e, "none")
    \/ \E j \in DOMAIN jobs : stalled(j, "none")

SpecOrder == Init /\ [][NextOrder]_vars

\* Job j is ready: waiting, or delayed with its time come.
Ready(j) ==
    \/ jobs[j].state = "waiting"
    \/ jobs[j].state = "delayed" /\ jobs[j].delayUntil <= now

\* A worker slot claims job j in this step.
Claimed(j) == jobs[j].state # "active" /\ jobs'[j].state = "active"

\* C15: whenever a worker slot claims a job, the job is ready, no ready job
\* has a smaller priority, and no ready job of the same priority was
\* enqueued earlier (job ids are given in the order of enqueueing).
C15_DequeueOrder ==
    [][\A j \in DOMAIN jobs :
          Claimed(j)
             => /\ Ready(j)
                /\ \A k \in DOMAIN jobs \ {j} :
                      Ready(k) =>
                         \/ jobs[j].opts.priority < jobs[k].opts.priority
                         \/ /\ jobs[j].opts.priority = jobs[k].opts.priority
                            /\ j < k]_vars

\* The job came in through POST /sms/send: the handler always puts an
\* identifier in the job's data, as POST /sms/bulk never does.
ViaSend(job) == job.data.identifier # ""

\* C16: of two ready jobs submitted through POST /sms/send with different
\* priority values in their requests, the one with the lower value is
\* claimed first.
C16_SubmittedPriorityIsScheduled ==
    [][\A j \in DOMAIN jobs :
          (Claimed(j) /\ ViaSend(jobs[j]))
             => \A k \in DOMAIN jobs \ {j} :
                   (Ready(k) /\ ViaSend(jobs[k]))
                      => jobs[j].data.priority <= jobs[k].data.priority]_vars

\* C17: when a job is processed, the identifier the rate limiter evaluates
\* is the one supplied with its submission, single or bulk (the handler's
\* default when the caller supplied none): the limiter's keys after the step
\* are those that isAllowed for that identifier leaves.
C17_SubmittedIdentifierIsEvaluated ==
    [][\A j \in DOMAIN jobs :
          Claimed(j)
             => redis' = isAllowed(RequestIdentifier(jobs[j]), redis, now,
                                   initialized, "none").s]_vars

(***************************************************************************)
(* SMSService.getDailyStats (part_001:131-159).                            *)
(***************************************************************************)
\* getDailyStats that takes every entry for a success.
getDailyStats_allSuccessful(daily, date) ==
    [total |-> BagCardinality(daily[date]),
     successful |-> BagCardinality(daily[date]),
     failed |-> 0, date |-> date]

\* LRANGE sms_logs:<date> 0 -1, then the count of the entries by status:
\* 'success' is successful, anything else failed.
getDailyStats(daily, date) ==
    LET logs == daily[date]
        n(status) == IF BagIn(status, logs) THEN CopiesIn(status, logs) ELSE 0
    IN  [total |-> BagCardinality(logs),
         successful |-> n("success"),
         failed |-> BagCardinality(logs) - n("success"),
         date |-> date]

\* The step records an outcome of this status: sendSMS comes to its call of
\* logSMSDelivery after the gateway answered (success), or after the
\* gateway, a validation or the rate limit refused (failed).
Records(status) ==
    \/ status = "success" /\ \E e \in execs : gatewaySucceeds(e, "none")
    \/ status = "failed" /\ \E e \in execs : gatewayFails(e, "none")
    \/ /\ status = "failed"
       /\ processSMSJob("none")
       /\ \E e \in execs' \ execs : e.pc = "catch"

NotExecuted(j) ==
    \A e \in execs' : e.job = j => \E e0 \in execs : e0.job = j /\ e0.run = e.run

\* C19: a job whose execution has neither completed nor failed it when its
\* lock runs out is returned to Waiting at most once, namely only when it
\* has not stalled before; a job that stalls a second time is moved to
\* Failed with the stall error, and from then on it stays Failed with that
\* error and no execution of it begins.
C19_StalledRecoveredOnce ==
    [][\A j \in DOMAIN jobs :
          /\ (jobs[j].state = "active" /\ jobs'[j].state = "waiting")
                => /\ jobs[j].stalledCounter = 0
                   /\ jobs'[j].stalledCounter = 1
          /\ (stalled(j, "none") /\ jobs[j].stalledCounter >= 1)
                => /\ FailedByStall(jobs'[j])
                   /\ NotExecuted(j)
          /\ FailedByStall(jobs[j])
                => /\ FailedByStall(jobs'[j])
                   /\ jobs'[j].attemptsStarted = jobs[j].attemptsStarted
                   /\ NotExecuted(j)]_vars

\* A job stalled, was recovered and run again, stalled again and was failed
\* with the stall error while the clock went on.
C19_Witness ==
    \E j \in DOMAIN jobs :
        /\ FailedByStall(jobs[j])
        /\ jobs[j].stalledCounter = 2
        /\ jobs[j].attemptsStarted >= 2
        /\ now > 0

(***************************************************************************)
(* C20: the reads of the job store.                                        *)
(***************************************************************************)
\* C20: when the store rejects the read, get job status and get queue stats
\* answer with an error: get job status never answers not-found for a job
\* that exists, and get queue stats never answers success with no counts.
C20_ReadFailureIsAnError ==
    [][/\ \A jobId \in JobIds :
            getSMSStatus(jobId, FALSE)
               => /\ resp'.status >= 500
                  /\ jobId \in DOMAIN jobs => resp'.status # 404
       /\ APIRouter_getQueueStats(FALSE)
               => /\ resp'.status >= 500
                  /\ ~(resp'.status = 200 /\ resp'.results = <<>>)]_vars

\* The part of C20 about job status alone.
C20_ExistingJobNeverNotFound ==
    [][\A jobId \in JobIds :
          (getSMSStatus(jobId, FALSE) /\ jobId \in DOMAIN jobs)
             => resp'.status # 404]_vars

\* The part of C20 about queue stats alone.
C20_StatsNeverSuccessWithoutCounts ==
    [][APIRouter_getQueueStats(FALSE)
          => ~(resp'.status = 200 /\ resp'.results = <<>>)]_vars

(***************************************************************************)
(* C21: every job comes to an end.  The worker keeps running: a free slot  *)
(* takes the next job, the clock reaches the time of a delayed job, and    *)
(* every await of an execution returns or rejects (the gateway call, the   *)
(* updates of the success path, the updates of the catch block).  Nothing  *)
(* is assumed of the stalled-jobs check.                                   *)
(***************************************************************************)
\* A slot is free and a job is waiting or due: processSMSJob("none") is
\* enabled, and every step of it changes the state.
CanClaim == running /\ FreeSlot /\ Promote(jobs, wait, now).wait # <<>>

\* Weak fairness of processSMSJob("none"), written with its enabling
\* condition CanClaim in place of ENABLED.
FairClaim == []<>(~CanClaim) \/ []<><<processSMSJob("none")>>_vars

Fairness ==
    /\ FairClaim
    /\ WF_vars(TickQueue)
    /\ WF_vars(\E e \in execs : gatewaySucceeds(e, "none") \/ gatewayFails(e, "none"))
    /\ WF_vars(\E e \in execs :
                  \/ recordResult(e, "none")
                  \/ \E at \in {"updateProgress", "addResult"} : recordResultFails(e, at))
    /\ WF_vars(\E e \in execs :
                  \/ handleError(e, "none")
                  \/ \E at \in {"updateProgress", "addResult"} :
                        handleErrorFails(e, at, "none"))

SpecLive == Init /\ [][Next]_vars /\ Fairness

\* Job j is in the queue and in a terminal state.
Terminal(j) == j \in DOMAIN jobs /\ jobs[j].state \in {"completed", "failed"}

\* C21: every enqueued job eventually reaches Completed or Failed; no error
\* of an execution leaves it Waiting, Active or Delayed for ever.
C21_EveryJobEnds ==
    \A j \in 1..MaxJobs : (j \in DOMAIN jobs) ~> Terminal(j)

\* A job came to its end by its last attempt, on the second day, after
\* errors of the gateway and of the updates.
C21_Witness ==
    \E j \in DOMAIN jobs :
        /\ Terminal(j)
        /\ jobs[j].attemptsMade >= maxAttempts - 1
        /\ jobs[j].stalledCounter = 0
        /\ now = retryDelay + 2 * retryDelay
        /\ execs = {}

(***************************************************************************)
(* C22 to C25: the limiter, called in sequence.                            *)
(***************************************************************************)
\* The latest call was a call of isAllowed that returned, made with no block
\* key for its identifier and k - 1 admitted calls in the window.
KthCall(k) ==
    /\ last.op = "isAllowed"
    /\ Returned(last.c)
    /\ last.pre.blk[last.id] = 0
    /\ last.recent = k - 1

\* C22: of sequential calls for one identifier that start from an empty
\* window and fall inside one window, the k-th (1 <= k <= maxRequests)
\* returns allowed = true with remaining = maxRequests - k, and call
\* maxRequests + 1 returns allowed = false, blocked = true with
\* blockDuration = blockDurationMs, the block being set for that long.
C22_KthCallRemaining ==
    /\ \A k \in 1..maxRequests :
          KthCall(k) => /\ Admitted(last.c)
                        /\ ~Result(last.c).blocked
                        /\ Result(last.c).remaining = maxRequests - k
    /\ KthCall(maxRequests + 1)
          => /\ Rejected(last.c)
             /\ Result(last.c).remaining = 0
             /\ Result(last.c).blockDuration = blockDurationMs
             /\ now < last.at + blockDurationMs
                   => redis.blk[last.id] >= last.at + blockDurationMs

\* Call maxRequests + 1 of a window was rejected and set the block, after
\* the clock had moved within the window.
C22_Witness ==
    /\ KthCall(maxRequests + 1)
    /\ Rejected(last.c)
    /\ last.at > 0
    /\ last.at < windowMs
    /\ redis.blk[last.id] # 0

\* C23: while a block is in effect for an identifier, a call of isAllowed
\* for it changes nothing: no event is removed or added and the expiry of
\* the block is not moved.
C23_BlockedCallChangesNothing ==
    [][\A id \in CallerIds :
          (BlockInEffect(redis, id, now) /\ SeqIsAllowed(id)) => redis' = redis]_vars

\* The part of C23 about the block alone: a call made while a block is in
\* effect leaves the block's expiry where it was.
C23_BlockNotExtended ==
    [][\A id \in CallerIds :
          (BlockInEffect(redis, id, now) /\ SeqIsAllowed(id))
             => redis'.blk[id] = redis.blk[id]]_vars

\* The part of C23 that the block check of isAllowed does provide: a call
\* that finds TTL > 0 changes nothing.
C23_CallSeeingBlockChangesNothing ==
    [][\A id \in CallerIds :
          (TTL(redis.blk[id], now) > 0 /\ SeqIsAllowed(id)) => redis' = redis]_vars

(***************************************************************************)
(* C24: where blocks come from, with reset and a call in flight.           *)
(***************************************************************************)
\* The events of identifier id in Redis state s inside the window that ends
\* at clk.
InWindow(s, id, clk) ==
    LET b == s.zset[id]
        recent == {x \in DOMAIN b : x > clk - windowMs}
    IN  BagCardinality([x \in recent |-> b[x]])

\* A block for identifier id is created in this step.
BlockCreated(id) == redis'.blk[id] # 0 /\ redis'.blk[id] # redis.blk[id]

\* C24: at every instant at which a block for an identifier is created, the
\* identifier's event set holds at least maxRequests events inside the
\* trailing window, under any interleaving of calls of isAllowed and reset;
\* and the call that creates it is not an admitted one.
C24_BlockOnlyWhenWindowFull ==
    [][\A id \in CallerIds :
          BlockCreated(id)
             => /\ InWindow(redis, id, now) >= maxRequests
                /\ last' # last => ~Admitted(last'.c)
                /\ callers' # callers => callers'[InFlight].pc = "zrange"]_vars

\* The part of C24 about admitted calls alone: the step that creates a block
\* belongs to a call that is not admitted.
C24_AdmittedCallNeverBlocks ==
    [][\A id \in CallerIds :
          BlockCreated(id)
             => /\ last' # last => ~Admitted(last'.c)
                /\ callers' # callers
                      => /\ callers'[InFlight].pc = "zrange"
                         /\ callers'[InFlight].currentRequests >= maxRequests]_vars

(***************************************************************************)
(* C25: stale events after a read.                                         *)
(***************************************************************************)
\* The events of identifier id in Redis state s with a timestamp before
\* clk - windowMs.
Older(s, id, clk) == {x \in DOMAIN s.zset[id] : x < clk - windowMs}

\* A call of isAllowed or of getStatus for identifier id that returns is
\* made in this step.
ReadReturns(id) ==
    /\ \/ SeqIsAllowed(id)
       \/ \E failAt \in StatusSteps \cup {"none"} : SeqGetStatus(id, failAt)
    /\ Returned(last'.c)

ReadTheWindow(id) ==
    /\ ReadReturns(id)
    /\ TTL(redis.blk[id], now) <= 0
    /\ last'.c.fault \notin {"ttl", "zremrangebyscore"}

Recorded ==
    LET RECURSIVE Sum(_)
        Sum(ds) == IF ds = {} THEN 0
                   ELSE LET d == CHOOSE x \in ds : TRUE
                        IN  BagCardinality(dailyLog[d]) + Sum(ds \ {d})
    IN  Len(deliveryLog) + Sum(Days)

\* Lines 91-101: the client is there, the entry is built.
logSMSDelivery_enter(w, to, message, status, error) ==
    /\ initialized
    /\ recording[w].pc = "idle"
    /\ Recorded < MaxRecords
    /\ recording' = [recording EXCEPT ![w] =
            [pc |-> "lpush",
             logEntry |-> <<LogEntry(to, message, status, <<>>, error, now)>>]]
    /\ UNCHANGED <<now, initialized, redis, limiterVars, queueVars,
                   deliveryLog, dailyLog, jobMetrics>>

\* Line 105: LPUSH sms_delivery_logs.
logSMSDelivery_lpush(w, rejects) ==
    /\ recording[w].pc = "lpush"
    /\ IF rejects
       THEN /\ recording' = [recording EXCEPT ![w] = NoRecording]
            /\ deliveryLog' = deliveryLog
       ELSE /\ recording' = [recording EXCEPT ![w].pc = "ltrim"]
            /\ deliveryLog' = recording[w].logEntry \o deliveryLog
    /\ UNCHANGED <<now, initialized, redis, limiterVars, queueVars,
                   dailyLog, jobMetrics>>

\* Line 106: LTRIM sms_delivery_logs 0 999.
logSMSDelivery_ltrim(w, rejects) ==
    /\ recording[w].pc = "ltrim"
    /\ IF rejects
       THEN /\ recording' = [recording EXCEPT ![w] = NoRecording]
            /\ deliveryLog' = deliveryLog
       ELSE /\ recording' = [recording EXCEPT ![w].pc = "lpushDaily"]
            /\ deliveryLog' = IF Len(deliveryLog) > DeliveryLogCap
                              THEN SubSeq(deliveryLog, 1, DeliveryLogCap)
                              ELSE deliveryLog
    /\ UNCHANGED <<now, initialized, redis, limiterVars, queueVars,
                   dailyLog, jobMetrics>>

\* Lines 109-111: LPUSH sms_logs:<today>.
logSMSDelivery_lpushDaily(w, rejects) ==
    /\ recording[w].pc = "lpushDaily"
    /\ IF rejects
       THEN /\ recording' = [recording EXCEPT ![w] = NoRecording]
            /\ dailyLog' = dailyLog
       ELSE /\ recording' = [recording EXCEPT ![w].pc = "expire"]
            /\ dailyLog' = [dailyLog EXCEPT ![Day(now)] =
                                @ (+) SetToBag({recording[w].logEntry[1].status})]
    /\ UNCHANGED <<now, initialized, redis, limiterVars, queueVars,
                   deliveryLog, jobMetrics>>

\* Line 112: EXPIRE sms_logs:<today>; the call returns, rejected or not.
logSMSDelivery_expire(w, rejects) ==
    /\ recording[w].pc = "expire"
    /\ recording' = [recording EXCEPT ![w] = NoRecording]
    /\ UNCHANGED <<now, initialized, redis, limiterVars, queueVars,
                   deliveryLog, dailyLog, jobMetrics>>

\* Concurrent workers recording outcomes.
NextLog ==
    \/ connect
    \/ Tick(Step, LogMaxTime)
    \/ \E w \in 1..concurrency :
          \/ logSMSDelivery_enter(w, ValidPhone, Hi, "success", NoError)
          \/ logSMSDelivery_enter(w, ValidPhone, Hi, "failed", <<"Gateway error">>)
    \/ \E w \in 1..concurrency, rejects \in BOOLEAN : logSMSDelivery_lpush(w, rejects)
    \/ \E w \in 1..concurrency, rejects \in BOOLEAN : logSMSDelivery_ltrim(w, rejects)
    \/ \E w \in 1..concurrency, rejects \in BOOLEAN : logSMSDelivery_lpushDaily(w, rejects)
    \/ \E w \in 1..concurrency, rejects \in BOOLEAN : logSMSDelivery_expire(w, rejects)

SpecLog == Init /\ [][NextLog]_vars

\* No call of logSMSDelivery is in flight.
AtRest == \A w \in 1..concurrency : recording[w].pc = "idle"

IsPrefix(s, t) == Len(s) <= Len(t) /\ s = SubSeq(t, 1, Len(s))

\* C26: the delivery log is bounded and newest-first: after any sequence of
\* calls of logSMSDelivery, the calls of concurrent workers interleaved, the
\* log holds at most DeliveryLogCap entries.
C26_BoundedAfterCalls == AtRest => Len(deliveryLog) <= DeliveryLogCap

\* C26, the order of the log: every command that changes the log either
\* puts the entry of its call at the head and keeps the rest as it was, or
\* cuts entries off the tail and keeps the DeliveryLogCap newest.
C26_NewestFirst ==
    [][\/ deliveryLog' = deliveryLog
       \/ \E w \in 1..concurrency :
             /\ recording[w].pc = "lpush"
             /\ deliveryLog' = recording[w].logEntry \o deliveryLog
       \/ /\ IsPrefix(deliveryLog', deliveryLog)
          /\ Len(deliveryLog') = DeliveryLogCap]_vars

(***************************************************************************)
(* C27: what reaches the gateway.                                          *)
(***************************************************************************)
Padded(m) == <<" ">> \o m \o <<" ">>

\* Requests whose recipient or body carries surrounding whitespace, beside
\* clean and invalid ones.
SendRequests ==
    {[to |-> ValidPhone,         message |-> Hi,         identifier |-> "u1", priority |-> 0],
     [to |-> ValidPhone,         message |-> Padded(Hi), identifier |-> "u1", priority |-> 0],
     [to |-> Padded(ValidPhone), message |-> Hi,         identifier |-> "u1", priority |-> 0],
     [to |-> BadPhone,           message |-> Hi,         identifier |-> "u1", priority |-> 0],
     [to |-> ValidPhone,         message |-> Blank,      identifier |-> "u1", priority |-> 0]}

\* The worker on jobs of one identifier, some of them with padded or
\* invalid fields; no delayed job comes back.
NextSend ==
    \/ initialize
    \/ \E req \in SendRequests :
            /\ sendSMS(req, "queued")
            /\ Len(jobs') <= SendJobs
    \/ processSMSJob("none")
    \/ \E e \in execs : gatewaySucceeds(e, "none")
    \/ \E e \in execs : gatewayFails(e, "none")
    \/ \E e \in execs : recordResult(e, "none")
    \/ \E e \in execs, at \in {"updateProgress", "addResult"} : recordResultFails(e, at)
    \/ \E e \in execs : handleError(e, "none")
    \/ \E e \in execs, at \in {"updateProgress", "addResult"} :
            handleErrorFails(e, at, "none")
    \/ \E j \in DOMAIN jobs : stalled(j, "none")

SpecSend == Init /\ [][NextSend]_vars

\* Execution e stands at the call of client.SMS.send (part_001:45).
AtGateway(e) == e.pc = "gateway"

\* The limiter's answer to the call sendSMS makes for the job of e in the
\* current state.
LimiterAllows(e) ==
    LET identifier == jobs[e.job].data.identifier
        r == isAllowed(IF identifier = "" THEN "default" ELSE identifier,
                       redis, now, initialized, "none")
    IN  Returned(r.c) /\ Result(r.c).allowed

\* C27: the gateway is called only after the limiter allowed the attempt,
\* the recipient matched the phone-number format and the body was non-empty
\* after trimming, and the recipient and the body it is called with are in
\* trimmed form.
C27_GatewayGetsValidatedTrimmedInput ==
    [][\A e \in execs' :
          AtGateway(e) =>
             LET data == jobs'[e.job].data
                 sent == smsData(data.to, data.message)
             IN  /\ isValidPhoneNumber(data.to)
                 /\ Len(trim(data.message)) > 0
                 /\ sent.to = <<trim(data.to)>>
                 /\ sent.message = trim(data.message)
                 /\ trim(sent.message) = sent.message
                 /\ e \notin execs => LimiterAllows(e)]_vars

\* A job whose body came with surrounding whitespace stands at the gateway
\* call while the limiter has turned another attempt away.
C27_Witness ==
    /\ \E e \in execs :
          /\ AtGateway(e)
          /\ trim(jobs[e.job].data.message) # jobs[e.job].data.message
    /\ \E id \in Identifiers : redis.blk[id] # 0

(***************************************************************************)
(* C28: the recipient in the delivery log.                                 *)
(***************************************************************************)
\* C28: every entry of the delivery log stores the recipient in masked
\* form: no entry holds the full phone number of the job it was written
\* for.  (The entry pushed on the list of the day is the same JSON string.)
C28_RecipientIsMasked ==
    \A i \in 1..Len(deliveryLog), j \in DOMAIN jobs :
        isValidPhoneNumber(jobs[j].data.to) => deliveryLog[i].to # jobs[j].data.to

(***************************************************************************)
(* C29: sends per job.                                                     *)
(***************************************************************************)
\* The gateway calls that returned success: each one is logged with status
\* 'success' on the list of its day (part_001:45-48).
SuccessfulSends ==
    LET RECURSIVE Sum(_)
        Sum(ds) == IF ds = {} THEN 0
                   ELSE LET d == CHOOSE x \in ds : TRUE
                        IN  CopiesIn("success", dailyLog[d]) + Sum(ds \ {d})
    IN  Sum(Days)

\* C29: a message already sent is never sent again: over post-send
\* failures, retries and stalled-job recoveries, the gateway calls that
\* returned success are at most one per job.
C29_AtMostOneSuccessfulSendPerJob == SuccessfulSends <= Len(jobs)

\* C29, step by step: no gateway call is started for a job for which an
\* earlier gateway call has returned success.
C29_NoSendAfterSuccess ==
    [][\A e \in execs' :
          (AtGateway(e) /\ e \notin execs /\ Len(jobs) = 1) => SuccessfulSends = 0]_vars

(***************************************************************************)
(* C30: the entries one execution of sendSMS writes.                       *)
(***************************************************************************)
\* client.SMS.send resolves with a response that lists no recipient
\* (SMSMessageData.Recipients = [], as the gateway answers a message it did
\* not accept): the delivery is logged as a success (part_001:48), reading
\* Recipients[0].messageId throws a TypeError (line 52), and the catch block
\* logs the attempt as failed and rethrows (lines 62-67).
gatewayAnswersNoRecipient(e) ==
    /\ e \in execs /\ e.pc = "gateway"
    /\ initialized
    /\ LET job == jobs[e.job]
           error == <<"Cannot read properties of undefined (reading 'messageId')">>
           logged == logSMSDelivery(deliveryLog, dailyLog, job.data.to,
                                    job.data.message, "success", <<>>, NoError,
                                    now, "none")
           log == logSMSDelivery(logged.lists.deliveryLog, logged.lists.dailyLog,
                                 job.data.to, job.data.message, "failed", <<>>,
                                 error, now, "none")
       IN  /\ execs' = Replace(e, [e EXCEPT !.pc = "catch", !.error = error])
           /\ deliveryLog' = log.lists.deliveryLog
           /\ dailyLog' = log.lists.dailyLog
    /\ UNCHANGED <<now, initialized, redis, limiterVars, running, jobs, wait, resp,
                   jobMetrics, recording>>

\* The whole system with a gateway that may answer without a recipient.
NextGateway ==
    \/ Next
    \/ \E e \in execs : gatewayAnswersNoRecipient(e)

SpecGateway == Init /\ [][NextGateway]_vars

\* An execution of sendSMS ends in this step: e is what the execution of
\* processSMSJob that called it has become, past the call (pc "update": it
\* returned; pc "catch": it threw).
SendSMSEnds(e) ==
    /\ e \in execs' \ execs
    /\ e.pc \in {"update", "catch"}
    /\ \A e0 \in execs : (e0.job = e.job /\ e0.run = e.run) => e0.pc = "gateway"

\* The step appends one entry of this status to the delivery log and to the
\* list of the day, and nothing else.
AppendsOne(status) ==
    /\ deliveryLog' # <<>>
    /\ deliveryLog'[1].status = status
    /\ deliveryLog' = PushTrim(deliveryLog, deliveryLog'[1], DeliveryLogCap)
    /\ dailyLog' = [dailyLog EXCEPT ![Day(now)] = @ (+) SetToBag({status})]

\* C30: each execution of sendSMS appends exactly one entry to the delivery
\* log, of status 'success' if and only if it returned and of status
\* 'failed' if and only if it threw; none appends both.
C30_OneEntryMatchingOutcome ==
    [][\A e \in execs' :
          SendSMSEnds(e) => AppendsOne(IF e.pc = "update" THEN "success" ELSE "failed")]_vars

(***************************************************************************)
(* C31: what an attempt costs the window.                                  *)
(***************************************************************************)
\* The system with a store that may reject a command of the evaluate an
\* attempt makes: isAllowed then fails open (rateLimiter.js:70-79).
NextAttempt ==
    \/ Next
    \/ \E failAt \in RedisSteps : processSMSJob_attempt("none", failAt)

SpecAttempt == Init /\ [][NextAttempt]_vars

\* The identifier sendSMS evaluates for job j (part_001:15, rateLimiter.js:215).
IdentifierOf(j) ==
    IF jobs[j].data.identifier = "" THEN "default" ELSE jobs[j].data.identifier

\* Execution e starts in this step: an attempt of its job is made.
AttemptStarts(e) ==
    /\ e \in execs'
    /\ \A e0 \in execs : ~(e0.job = e.job /\ e0.run = e.run)

\* The evaluate of the attempt turned it away.
RejectedAttempt(e) ==
    e.pc = "catch" /\ e.error # NoError /\ e.error[1] = "Rate limit exceeded"

\* The events of identifier id after the prune of a call made now.
Pruned(id) == ZRemRangeByScore(redis, id, 0, now - windowMs).zset[id]

\* What the attempt of e does to the windows: it evaluates the job's
\* identifier and no other, and unless it was turned away the window of
\* the identifier holds one event more than the prune left.
CostsOneEvent(e) ==
    LET id == IdentifierOf(e.job)
    IN  /\ \A i \in Identifiers \ {id} :
              redis'.zset[i] = redis.zset[i] /\ redis'.blk[i] = redis.blk[i]
        /\ ~RejectedAttempt(e) => redis'.zset[id] = Pruned(id) (+) SetToBag({now})

\* A step that ends an attempt in failure, or the stalled-jobs check.
FailureStep ==
    \/ \E e \in execs : gatewayFails(e, "none")
    \/ \E e \in execs, at \in {"updateProgress", "addResult"} : recordResultFails(e, at)
    \/ \E e \in execs : handleError(e, "none")
    \/ \E e \in execs, at \in {"updateProgress", "addResult"} :
            handleErrorFails(e, at, "none")
    \/ \E j \in DOMAIN jobs : stalled(j, "none")

====
